---- MODULE Spec2Model ----
(***************************************************************************)
(* A model of the lane-safety evaluator (Plugins/Map/utils/lane_safety.py)  *)
(* and of the navigation-graph helpers (Plugins/Map/utils/node_helpers.py)  *)
(* of ETS2LA.                                                               *)
(*                                                                          *)
(* Conventions.                                                             *)
(*  - Python None is the value None (-1) wherever it shares a slot with an  *)
(*    integer (item uids, lane indices); real uids and indices are >= 0.    *)
(*  - Python lists are sequences; a Python index i is position i + 1.       *)
(*  - A non-negative real r (a distance, a speed factor) is carried exactly *)
(*    as its square, the rational <<n, d>> = n / d with d > 0.  Squaring is *)
(*    monotone on non-negative reals, so <, min and max on the squares are  *)
(*    <, min and max on the reals themselves.                               *)
(*  - Coordinates are whole metres.                                         *)
(***************************************************************************)
EXTENDS Integers, Sequences, FiniteSets, TLC

None == -1

\* ------------------------------------------------------------------------
\* Exact arithmetic on squares of non-negative reals
\* ------------------------------------------------------------------------
Sq(n, d) == <<n * n, d * d>>
SqLess(a, b) == a[1] * b[2] < b[1] * a[2]
SqEq(a, b) == a[1] * b[2] = b[1] * a[2]
SqLeq(a, b) == a[1] * b[2] <= b[1] * a[2]
SqMin(a, b) == IF SqLess(b, a) THEN b ELSE a
SqMax(a, b) == IF SqLess(a, b) THEN b ELSE a
\* r / k for a positive integer k
SqDivInt(a, k) == <<a[1], a[2] * k * k>>
SqOne == Sq(1, 1)

\* ------------------------------------------------------------------------
\* lane_safety.py: safety parameters
\* ------------------------------------------------------------------------
\* LANE_WIDTH = 3.5 = LANE_WIDTH_NUM / LANE_WIDTH_DEN
LANE_WIDTH_NUM == 7
LANE_WIDTH_DEN == 2
SAFETY_DISTANCE_AHEAD == 30
SAFETY_DISTANCE_BEHIND == 15
SAFETY_DISTANCE_BESIDE == 8
\* "+10 for some margin" of the screening window
SCREEN_MARGIN == 10
\* "+1 meter margin" of the lane membership test
LANE_MARGIN == 1
\* the lower clamp 0.3 = MIN_FACTOR_NUM / MIN_FACTOR_DEN of the speed factor
MIN_FACTOR_NUM == 3
MIN_FACTOR_DEN == 10

\* ------------------------------------------------------------------------
\* Bounds of the model
\* ------------------------------------------------------------------------
\* the longest traffic list the Traffic module reports
MaxVehicles == 2

\* ------------------------------------------------------------------------
\* The world the evaluator reads: lane geometry, truck poses, vehicles
\* ------------------------------------------------------------------------
Pt(x, z) == [x |-> x, z |-> z]
Pos3(x, y, z) == [x |-> x, y |-> y, z |-> z]

\* a lane centreline along the z axis at lateral offset x, one point every 20 m
StraightPoints(x) ==
    <<Pt(x, -50), Pt(x, -30), Pt(x, -10), Pt(x, 10), Pt(x, 30), Pt(x, 50)>>
\* the same centreline with a repeated point (a zero-length segment)
RepeatedPoints(x) ==
    <<Pt(x, -50), Pt(x, -30), Pt(x, -10), Pt(x, -10), Pt(x, 10), Pt(x, 30), Pt(x, 50)>>

Lane(pts) == [has_points |-> TRUE, points |-> pts]
LaneWithoutPoints == [has_points |-> FALSE, points |-> <<>>]
Road(lanes) == [has_lanes |-> TRUE, lanes |-> lanes]
RoadWithoutLanes == [has_lanes |-> FALSE, lanes |-> <<>>]

\* two full lanes, 4 m apart
RoadTwoLanes == Road(<<Lane(StraightPoints(0)), Lane(RepeatedPoints(4))>>)
\* lanes whose geometry is missing, empty, or a single point
RoadBroken == Road(<<LaneWithoutPoints, Lane(<<>>), Lane(<<Pt(0, 0)>>)>>)
Roads == {RoadTwoLanes, RoadBroken, RoadWithoutLanes}

LaneIndices == 0..2
CurrentLaneIndices == 0..1

\* truck pose: ground position and heading as a number of quarter turns
TruckPoses ==
    { [x |-> 0, z |-> 0, rot |-> 0],
      [x |-> 4, z |-> 3, rot |-> 3] }

VehiclePositions ==
    { Pos3(0, 0, 0),          \* the null position
      Pos3(0, 1, 0),          \* at the origin of the ground plane, not null
      Pos3(0, 0, 9), Pos3(0, 0, 10), Pos3(0, 0, 39), Pos3(0, 0, 41),
      Pos3(0, 0, -14) }

Vehicle(p) == [position |-> p]

\* what data.plugin offers: no Traffic module, a Traffic.run() that raises,
\* one that returns None, or one that returns the list of vehicles
TrafficKinds == {"no_plugin", "raises", "returns_none", "returns"}

\* ------------------------------------------------------------------------
\* Plugins.Map.utils.math_helpers and Position: the front/behind test of a
\* heading (a dot-product check against the heading direction) and the null
\* position test
\* ------------------------------------------------------------------------
\* the heading direction after rot quarter turns
Forward(rot) ==
    CASE rot = 0 -> Pt(0, 1)
      [] rot = 1 -> Pt(1, 0)
      [] rot = 2 -> Pt(0, -1)
      [] OTHER   -> Pt(-1, 0)

\* a point is in front when its offset from the position has a positive
\* component along the heading
IsInFront(point, rotation, position) ==
    (point.x - position.x) * Forward(rotation).x
      + (point.z - position.z) * Forward(rotation).z > 0

\* Position.is_zero(): every coordinate is 0
is_zero(p) == p.x = 0 /\ p.y = 0 /\ p.z = 0

\* ------------------------------------------------------------------------
\* lane_safety.py: functions
\* ------------------------------------------------------------------------
Max(a, b) == IF a > b THEN a ELSE b
Min(a, b) == IF a < b THEN a ELSE b

\* math.sqrt(dx ** 2 + dz ** 2), as a square
GroundDistance(p, q) == <<(p.x - q.x) * (p.x - q.x) + (p.z - q.z) * (p.z - q.z), 1>>

\* get_vehicles_from_plugin(): [] unless Traffic.run() returned a non-empty list
get_vehicles_from_plugin(traffic) ==
    IF traffic.kind = "returns" /\ traffic.vehicles # <<>>
    THEN traffic.vehicles
    ELSE <<>>

\* distance_point_to_line_segment.  With d = line_end - line_start,
\* num = (point - line_start) . d and t = clamp(num / length_sq, 0, 1) = tn / length_sq,
\* |point - (line_start + t d)|^2 = (|point - line_start|^2 length_sq - 2 tn num + tn^2) / length_sq.
distance_point_to_line_segment(point, line_start, line_end) ==
    LET dx == line_end.x - line_start.x
        dz == line_end.z - line_start.z
        length_sq == dx * dx + dz * dz
        num == (point.x - line_start.x) * dx + (point.z - line_start.z) * dz
        tn == Max(0, Min(length_sq, num))
    IN  IF length_sq = 0
        THEN GroundDistance(point, line_start)
        ELSE <<GroundDistance(point, line_start)[1] * length_sq - 2 * tn * num + tn * tn,
               length_sq>>

\* float('inf')
SqInf == <<1, 0>>

\* the loop of is_vehicle_in_lane over the segments i .. len - 1, folding min
RECURSIVE MinDistToLane(_, _, _, _)
MinDistToLane(vehicle_pos, lane_points, i, acc) ==
    IF i > Len(lane_points) - 1
    THEN acc
    ELSE MinDistToLane(vehicle_pos, lane_points, i + 1,
             SqMin(acc, distance_point_to_line_segment(
                            vehicle_pos, lane_points[i], lane_points[i + 1])))

\* LANE_WIDTH / 2 + 1
LaneMembershipLimit ==
    Sq(LANE_WIDTH_NUM + 2 * LANE_WIDTH_DEN * LANE_MARGIN, 2 * LANE_WIDTH_DEN)

\* mutant: the screening window has no margin
is_vehicle_in_lane_no_margin(vehicle, lane_points, truck_pos, truck_rotation) ==
    LET vehicle_pos == Pt(vehicle.position.x, vehicle.position.z)
        is_in_front == IsInFront(vehicle_pos, truck_rotation, truck_pos)
        dist_to_truck == GroundDistance(vehicle_pos, truck_pos)
        max_check_distance ==
            IF is_in_front THEN SAFETY_DISTANCE_AHEAD ELSE SAFETY_DISTANCE_BEHIND
    IN  IF Len(lane_points) < 2
        THEN FALSE
        ELSE IF SqLess(Sq(max_check_distance, 1), dist_to_truck)
        THEN FALSE
        ELSE SqLess(MinDistToLane(vehicle_pos, lane_points, 1, SqInf),
                    LaneMembershipLimit)

is_vehicle_in_lane(vehicle, lane_points, truck_pos, truck_rotation) ==
    LET vehicle_pos == Pt(vehicle.position.x, vehicle.position.z)
        is_in_front == IsInFront(vehicle_pos, truck_rotation, truck_pos)
        dist_to_truck == GroundDistance(vehicle_pos, truck_pos)
        max_check_distance ==
            IF is_in_front THEN SAFETY_DISTANCE_AHEAD ELSE SAFETY_DISTANCE_BEHIND
    IN  IF Len(lane_points) < 2
        THEN FALSE
        ELSE IF SqLess(Sq(max_check_distance + SCREEN_MARGIN, 1), dist_to_truck)
        THEN FALSE
        ELSE SqLess(MinDistToLane(vehicle_pos, lane_points, 1, SqInf),
                    LaneMembershipLimit)

\* mutant: the blind-spot test comes first
SafetyClassBesideFirst(dist, is_in_front) ==
    IF SqLess(dist, Sq(SAFETY_DISTANCE_BESIDE, 1)) THEN "beside"
    ELSE IF is_in_front /\ SqLess(dist, Sq(SAFETY_DISTANCE_AHEAD, 1)) THEN "ahead"
    ELSE IF ~is_in_front /\ SqLess(dist, Sq(SAFETY_DISTANCE_BEHIND, 1)) THEN "behind"
    ELSE "none"

\* the class check_lane_safety gives a vehicle of the target lane
SafetyClass(dist, is_in_front) ==
    IF is_in_front /\ SqLess(dist, Sq(SAFETY_DISTANCE_AHEAD, 1)) THEN "ahead"
    ELSE IF ~is_in_front /\ SqLess(dist, Sq(SAFETY_DISTANCE_BEHIND, 1)) THEN "behind"
    ELSE IF SqLess(dist, Sq(SAFETY_DISTANCE_BESIDE, 1)) THEN "beside"
    ELSE "none"

\* mutant: a vehicle at the null position is looked at like any other
BlockingEntryCountsNull(vehicle, lane_points, truck_pos, truck_rotation) ==
    LET vehicle_pos == Pt(vehicle.position.x, vehicle.position.z)
        dist == GroundDistance(vehicle_pos, truck_pos)
        is_in_front == IsInFront(vehicle_pos, truck_rotation, truck_pos)
        class == SafetyClass(dist, is_in_front)
    IN  IF ~is_vehicle_in_lane(vehicle, lane_points, truck_pos, truck_rotation)
        THEN <<>>
        ELSE IF class = "none"
        THEN <<>>
        ELSE <<[vehicle |-> vehicle, dist |-> dist, class |-> class]>>

\* the body of the vehicle loop of check_lane_safety: what one vehicle adds
\* to blocking_vehicles
BlockingEntry(vehicle, lane_points, truck_pos, truck_rotation) ==
    LET vehicle_pos == Pt(vehicle.position.x, vehicle.position.z)
        dist == GroundDistance(vehicle_pos, truck_pos)
        is_in_front == IsInFront(vehicle_pos, truck_rotation, truck_pos)
        class == SafetyClass(dist, is_in_front)
    IN  IF is_zero(vehicle.position)
        THEN <<>>
        ELSE IF ~is_vehicle_in_lane(vehicle, lane_points, truck_pos, truck_rotation)
        THEN <<>>
        ELSE IF class = "none"
        THEN <<>>
        ELSE <<[vehicle |-> vehicle, dist |-> dist, class |-> class]>>

RECURSIVE BlockingVehicles(_, _, _, _)
BlockingVehicles(vehicles, lane_points, truck_pos, truck_rotation) ==
    IF vehicles = <<>>
    THEN <<>>
    ELSE BlockingEntry(Head(vehicles), lane_points, truck_pos, truck_rotation)
           \o BlockingVehicles(Tail(vehicles), lane_points, truck_pos, truck_rotation)

\* min(v[1] for v in blocking_vehicles), blocking_vehicles not empty
RECURSIVE ClosestDist(_)
ClosestDist(blocking) ==
    IF Len(blocking) = 1
    THEN blocking[1].dist
    ELSE SqMin(blocking[1].dist, ClosestDist(Tail(blocking)))

\* mutant: the distance is scaled by the wrong safety distance
SpeedFactorBehindScale(closest_dist) ==
    SqMin(SqOne, SqMax(Sq(MIN_FACTOR_NUM, MIN_FACTOR_DEN),
                       SqDivInt(closest_dist, SAFETY_DISTANCE_BEHIND)))

\* min(1.0, max(0.3, closest_dist / SAFETY_DISTANCE_AHEAD))
SpeedFactor(closest_dist) ==
    SqMin(SqOne, SqMax(Sq(MIN_FACTOR_NUM, MIN_FACTOR_DEN),
                       SqDivInt(closest_dist, SAFETY_DISTANCE_AHEAD)))

\* the pending-lane-change state as a record
LaneState(pending, target, slow) ==
    [pending |-> pending, target |-> target, slow |-> slow]

\* mutant: the flags are not cleared before returning True, 1.0
ClearedReturnKeepsFlags(state) == [safe |-> TRUE, factor |-> SqOne, state |-> state]

\* mutant: only the pending flag is cleared before returning True, 1.0
ClearedReturnKeepsSlowDown(state) ==
    [safe |-> TRUE, factor |-> SqOne, state |-> LaneState(FALSE, state.target, state.slow)]

\* "return True, 1.0" with the two flags cleared first (target == current, or
\* no blocking vehicle); the stored target lane is left as it is
ClearedReturn(state) ==
    [safe |-> TRUE, factor |-> SqOne, state |-> LaneState(FALSE, state.target, FALSE)]

\* mutant: missing traffic or geometry blocks the lane change
FailClosedReturn(state) ==
    [safe |-> FALSE, factor |-> Sq(MIN_FACTOR_NUM, MIN_FACTOR_DEN), state |-> state]

\* mutant: the early returns clear the flags like the other safe returns
FailOpenReturnClearsFlags(state) ==
    [safe |-> TRUE, factor |-> SqOne, state |-> LaneState(FALSE, state.target, FALSE)]

\* "return True, 1.0" of the early returns on missing traffic or geometry:
\* the module state is not touched
FailOpenReturn(state) == [safe |-> TRUE, factor |-> SqOne, state |-> state]

\* mutant: the slow-down flag is not set when the change becomes pending
BlockedReturnNoSlowDown(target_lane_index, blocking_vehicles) ==
    [safe |-> FALSE,
     factor |-> SpeedFactor(ClosestDist(blocking_vehicles)),
     state |-> LaneState(TRUE, target_lane_index, FALSE)]

\* mutant: the lane the truck is told to wait for is the one after the target
BlockedReturnNextLane(target_lane_index, blocking_vehicles) ==
    [safe |-> FALSE,
     factor |-> SpeedFactor(ClosestDist(blocking_vehicles)),
     state |-> LaneState(TRUE, target_lane_index + 1, TRUE)]

\* "return False, speed_factor" after marking the change as pending
BlockedReturn(target_lane_index, blocking_vehicles) ==
    [safe |-> FALSE,
     factor |-> SpeedFactor(ClosestDist(blocking_vehicles)),
     state |-> LaneState(TRUE, target_lane_index, TRUE)]

\* check_lane_safety: the returned pair and the module state it leaves
check_lane_safety(target_lane_index, current_lane_index, road, state, traffic, truck) ==
    LET vehicles == get_vehicles_from_plugin(traffic)
        truck_pos == Pt(truck.x, truck.z)
    IN  IF target_lane_index = current_lane_index
        THEN ClearedReturn(state)
        ELSE IF vehicles = <<>>
        THEN FailOpenReturn(state)
        ELSE IF ~road.has_lanes \/ target_lane_index >= Len(road.lanes)
        THEN FailOpenReturn(state)
        ELSE IF ~road.lanes[target_lane_index + 1].has_points
                  \/ road.lanes[target_lane_index + 1].points = <<>>
        THEN FailOpenReturn(state)
        ELSE LET lane_points == road.lanes[target_lane_index + 1].points
                 blocking_vehicles ==
                     BlockingVehicles(vehicles, lane_points, truck_pos, truck.rot)
             IN  IF blocking_vehicles = <<>>
                 THEN ClearedReturn(state)
                 ELSE BlockedReturn(target_lane_index, blocking_vehicles)

\* is_waiting_for_lane_change()
is_waiting_for_lane_change(state) == state.pending

\* get_lane_change_speed_factor(): 1.0, or 0.5 while slowing down
get_lane_change_speed_factor(state) == IF ~state.slow THEN Sq(1, 1) ELSE Sq(1, 2)

\* mutant: the stored target lane survives the reset
reset_keeps_target(state) == LaneState(FALSE, state.target, FALSE)

\* reset_lane_change_state()
reset_lane_change_state(state) == LaneState(FALSE, None, FALSE)

\* ------------------------------------------------------------------------
\* node_helpers.py: bounds and the map data the helpers read
\* ------------------------------------------------------------------------
\* real item uids are 1..MaxItemUid
MaxItemUid == 2
\* the most lanes on one side of a road
MaxLanes == 3
\* the most boundary nodes of a prefab
MaxPrefabNodes == 3
\* the most navigation routes of a prefab description
MaxRoutes == 2
\* the most curves in one navigation route
MaxCurves == 2
\* the longest straight route, and the longest route over arbitrary nodes
MaxRouteNodes == 5
MaxShortRoute == 3
\* the longest chain of rotate_left / rotate_right calls on one list
MaxRotations == 2

\* forward_item_uid / backward_item_uid: absent, the sentinel 0, or a real uid
ItemUids == {None, 0} \cup (1..MaxItemUid)

Node(uid, forward, backward) ==
    [uid |-> uid, forward_item_uid |-> forward, backward_item_uid |-> backward]

\* the node uids map_data knows; UnknownNodeUid is a uid it does not know
KnownNodeUids == {1, 2, 3}
UnknownNodeUid == 9

\* map_data.get_node_by_uid(uid): the node, or None
get_node_by_uid(uid) ==
    IF uid \in KnownNodeUids
    THEN [is_none |-> FALSE, uid |-> uid]
    ELSE [is_none |-> TRUE, uid |-> None]

\* a Python call outcome: a returned value, or an exception that escapes
Returned(v) == [raised |-> FALSE, value |-> v]
Raised == [raised |-> TRUE, value |-> <<>>]

\* [i for i in range(a, b)]
Range(a, b) == [i \in 1..Max(0, b - a) |-> a + i - 1]

\* ------------------------------------------------------------------------
\* node_helpers.py: get_connecting_item_uid
\* ------------------------------------------------------------------------
\* Python truthiness of an item uid: None and 0 are falsy
Truthy(uid) == uid # None /\ uid # 0

\* mutant: the pairings are compared without excluding the sentinels
get_connecting_item_uid_no_sentinel(node_1, node_2) ==
    LET node_1_forward_item == node_1.forward_item_uid
        node_1_backward_item == node_1.backward_item_uid
        node_2_forward_item == node_2.forward_item_uid
        node_2_backward_item == node_2.backward_item_uid
    IN  IF node_1_forward_item = node_2_backward_item
        THEN node_1_forward_item
        ELSE IF node_1_backward_item = node_2_forward_item
        THEN node_1_backward_item
        ELSE IF node_1_forward_item = node_2_forward_item
        THEN node_1_forward_item
        ELSE IF node_1_backward_item = node_2_backward_item
        THEN node_1_backward_item
        ELSE None

\* mutant: the backward/forward pairing is not tried
get_connecting_item_uid_three_pairings(node_1, node_2) ==
    LET node_1_forward_item == node_1.forward_item_uid
        node_1_backward_item == node_1.backward_item_uid
        node_2_forward_item == node_2.forward_item_uid
        node_2_backward_item == node_2.backward_item_uid
    IN  IF Truthy(node_1_forward_item) /\ node_1_forward_item = node_2_backward_item
        THEN node_1_forward_item
        ELSE IF Truthy(node_1_forward_item) /\ node_1_forward_item = node_2_forward_item
        THEN node_1_forward_item
        ELSE IF Truthy(node_1_backward_item) /\ node_1_backward_item = node_2_backward_item
        THEN node_1_backward_item
        ELSE None

\* mutant: the second pairing is tried before the first
get_connecting_item_uid_swapped(node_1, node_2) ==
    LET node_1_forward_item == node_1.forward_item_uid
        node_1_backward_item == node_1.backward_item_uid
        node_2_forward_item == node_2.forward_item_uid
        node_2_backward_item == node_2.backward_item_uid
    IN  IF Truthy(node_1_backward_item) /\ node_1_backward_item = node_2_forward_item
        THEN node_1_backward_item
        ELSE IF Truthy(node_1_forward_item) /\ node_1_forward_item = node_2_backward_item
        THEN node_1_forward_item
        ELSE IF Truthy(node_1_forward_item) /\ node_1_forward_item = node_2_forward_item
        THEN node_1_forward_item
        ELSE IF Truthy(node_1_backward_item) /\ node_1_backward_item = node_2_backward_item
        THEN node_1_backward_item
        ELSE None

get_connecting_item_uid(node_1, node_2) ==
    LET node_1_forward_item == node_1.forward_item_uid
        node_1_backward_item == node_1.backward_item_uid
        node_2_forward_item == node_2.forward_item_uid
        node_2_backward_item == node_2.backward_item_uid
    IN  IF Truthy(node_1_forward_item) /\ node_1_forward_item = node_2_backward_item
        THEN node_1_forward_item
        ELSE IF Truthy(node_1_backward_item) /\ node_1_backward_item = node_2_forward_item
        THEN node_1_backward_item
        ELSE IF Truthy(node_1_forward_item) /\ node_1_forward_item = node_2_forward_item
        THEN node_1_forward_item
        ELSE IF Truthy(node_1_backward_item) /\ node_1_backward_item = node_2_backward_item
        THEN node_1_backward_item
        ELSE None

\* ------------------------------------------------------------------------
\* node_helpers.py: rotate_left, rotate_right
\* ------------------------------------------------------------------------
\* mutant: the assertion lets count = len(arr) pass
rotate_left_wide_assert(arr, count) ==
    IF ~(0 <= count /\ count <= Len(arr))
    THEN Raised
    ELSE IF count = 0
    THEN Returned(arr)
    ELSE Returned(SubSeq(arr, count + 1, Len(arr)) \o SubSeq(arr, 1, count))

\* arr[count:] + arr[:count]; the assertion fails outside 0 <= count < len(arr)
rotate_left(arr, count) ==
    IF ~(0 <= count /\ count < Len(arr))
    THEN Raised
    ELSE IF count = 0
    THEN Returned(arr)
    ELSE Returned(SubSeq(arr, count + 1, Len(arr)) \o SubSeq(arr, 1, count))

\* mutant: the elements move to the left
rotate_right_leftwards(arr, count) ==
    IF ~(0 <= count /\ count < Len(arr))
    THEN Raised
    ELSE IF count = 0
    THEN Returned(arr)
    ELSE Returned(SubSeq(arr, count + 1, Len(arr)) \o SubSeq(arr, 1, count))

\* arr[-count:] + arr[:-count]; the assertion fails outside 0 <= count < len(arr)
rotate_right(arr, count) ==
    IF ~(0 <= count /\ count < Len(arr))
    THEN Raised
    ELSE IF count = 0
    THEN Returned(arr)
    ELSE Returned(SubSeq(arr, Len(arr) - count + 1, Len(arr))
                    \o SubSeq(arr, 1, Len(arr) - count))

\* ------------------------------------------------------------------------
\* node_helpers.py: get_connecting_lanes_by_item
\* ------------------------------------------------------------------------
\* mutant: the forward range stops at the right-lane count
RoadConnectingLanesShortRange(node_1, item) ==
    LET left_lanes == Len(item.road_look.lanes_left)
        right_lanes == Len(item.road_look.lanes_right)
        start_node == item.start_node_uid
    IN  IF item.road_look.is_none
        THEN Returned(<<>>)
        ELSE IF start_node = node_1.uid
        THEN Returned(Range(left_lanes, right_lanes))
        ELSE IF left_lanes > 0
        THEN Returned(Range(0, left_lanes))
        ELSE Returned(Range(0, right_lanes))

\* the isinstance(item, c.Road) branch
RoadConnectingLanes(node_1, item) ==
    LET left_lanes == Len(item.road_look.lanes_left)
        right_lanes == Len(item.road_look.lanes_right)
        start_node == item.start_node_uid
    IN  IF item.road_look.is_none
        THEN Returned(<<>>)
        ELSE IF start_node = node_1.uid
        THEN Returned(Range(left_lanes, left_lanes + right_lanes))
        ELSE IF left_lanes > 0
        THEN Returned(Range(0, left_lanes))
        ELSE Returned(Range(0, right_lanes))

\* [i for i, n in enumerate(rotated_nodes) if n and n.uid == uid], 0-based
NodeMatches(rotated_nodes, uid) ==
    LET hits == { i \in 1..Len(rotated_nodes) :
                    ~rotated_nodes[i].is_none /\ rotated_nodes[i].uid = uid }
    IN  hits

\* the smallest element of a non-empty set of integers
SetMin(S) == CHOOSE x \in S : \A y \in S : x <= y

\* description.nav_curves.index(curve), 0-based; None for ValueError
CurveIndex(nav_curves, curve) ==
    LET hits == { i \in 1..Len(nav_curves) : nav_curves[i] = curve }
    IN  IF hits = {} THEN None ELSE SetMin(hits) - 1

\* mutant: the end test does not wait for the start
CurveStepEndFirst(index, start_found, start_prefab_node, end_prefab_node) ==
    LET start_now == start_found \/ index \in start_prefab_node.input_lanes
    IN  [start_found |-> start_now,
         end_found |-> index \in end_prefab_node.output_lanes]

\* one iteration of the curve loop for a curve found in nav_curves: the flags
\* after it (end_found is followed by break)
CurveStep(index, start_found, start_prefab_node, end_prefab_node) ==
    LET start_now == start_found \/ index \in start_prefab_node.input_lanes
    IN  [start_found |-> start_now,
         end_found |-> index \in end_prefab_node.output_lanes /\ start_now]

\* the curve loop over route.curves from position j on
RECURSIVE WalkCurves(_, _, _, _, _, _)
WalkCurves(curves, j, start_found, description, start_prefab_node, end_prefab_node) ==
    IF j > Len(curves)
    THEN [start_found |-> start_found, end_found |-> FALSE]
    ELSE LET index == CurveIndex(description.nav_curves, curves[j])
         IN  IF index = None
             THEN WalkCurves(curves, j + 1, start_found, description,
                             start_prefab_node, end_prefab_node)
             ELSE LET step == CurveStep(index, start_found,
                                        start_prefab_node, end_prefab_node)
                  IN  IF step.end_found
                      THEN step
                      ELSE WalkCurves(curves, j + 1, step.start_found, description,
                                      start_prefab_node, end_prefab_node)

\* the route loop: accepted_routes from route position i on (0-based indices)
RECURSIVE AcceptedRoutes(_, _, _, _)
AcceptedRoutes(description, i, start_prefab_node, end_prefab_node) ==
    IF i > Len(description.nav_routes)
    THEN <<>>
    ELSE LET found == WalkCurves(description.nav_routes[i].curves, 1, FALSE,
                                 description, start_prefab_node, end_prefab_node)
         IN  (IF found.start_found /\ found.end_found THEN <<i - 1>> ELSE <<>>)
               \o AcceptedRoutes(description, i + 1, start_prefab_node, end_prefab_node)

\* the isinstance(item, c.Prefab) branch
PrefabConnectingLanes(node_1, node_2, item) ==
    LET description == item.prefab_description
        item_nodes == [i \in 1..Len(item.node_uids) |-> get_node_by_uid(item.node_uids[i])]
        rotated == rotate_right(item_nodes, item.origin_node_index)
        rotated_nodes == rotated.value
        node_1_matches == NodeMatches(rotated_nodes, node_1.uid)
        node_2_matches == NodeMatches(rotated_nodes, node_2.uid)
        node_1_index == SetMin(node_1_matches) - 1
        node_2_index == SetMin(node_2_matches) - 1
    IN  IF description.is_none
        THEN Returned(<<>>)
        ELSE IF rotated.raised
        THEN Raised
        ELSE IF node_1_matches = {}
        THEN Returned(<<>>)
        ELSE IF node_1_index >= Len(description.nodes)    \* IndexError, caught
        THEN Returned(<<>>)
        ELSE IF node_2_matches = {}
        THEN Returned(<<>>)
        ELSE IF node_2_index >= Len(description.nodes)    \* IndexError, caught
        THEN Returned(<<>>)
        ELSE IF node_1_index = node_2_index
        THEN Returned(<<>>)
        ELSE IF description.nav_routes = <<>>
        THEN Returned(<<>>)
        ELSE Returned(AcceptedRoutes(description, 1,
                                     description.nodes[node_1_index + 1],
                                     description.nodes[node_2_index + 1]))

get_connecting_lanes_by_item(node_1, node_2, item) ==
    IF item.kind = "Road"
    THEN RoadConnectingLanes(node_1, item)
    ELSE IF item.kind = "Prefab"
    THEN PrefabConnectingLanes(node_1, node_2, item)
    ELSE Returned(<<>>)

\* ------------------------------------------------------------------------
\* node_helpers.py: get_surrounding_nav_nodes
\* ------------------------------------------------------------------------
\* route.node: a navigation node with its ground position (node.x, node.y)
NavNode(uid, x, y) == [uid |-> uid, x |-> x, y |-> y]
\* the None of a (None, None) result
NoNavNode == NavNode(None, 0, 0)

\* math_helpers.DistanceBetweenPoints: the Euclidean distance of two points
DistanceBetweenPoints(p, q) ==
    <<(p.x - q.x) * (p.x - q.x) + (p.z - q.z) * (p.z - q.z), 1>>

\* path.index(sorted(path, key=distance)[0]), 0-based, for a non-empty path:
\* the sort is stable, so among the nodes at the smallest distance the first
\* of the path comes first
ClosestIndex(path, position) ==
    LET dist(i) == DistanceBetweenPoints(Pt(path[i].x, path[i].y), position)
        nearest == { i \in 1..Len(path) :
                       \A j \in 1..Len(path) : SqLeq(dist(i), dist(j)) }
    IN  SetMin(nearest) - 1

\* mutant: a closest node behind the truck is taken alone
WindowBoundsNoLookAhead(path, position, rotation) ==
    LET index == ClosestIndex(path, position)
        closest == path[index + 1]
        in_front == IsInFront(Pt(closest.x, closest.y), rotation, position)
        lower_bound == Max(0, index - 1)
    IN  IF ~in_front
        THEN [lower_bound |-> index, upper_bound |-> Min(Len(path), index + 1)]
        ELSE IF lower_bound = 0
        THEN [lower_bound |-> lower_bound, upper_bound |-> index + 2]
        ELSE [lower_bound |-> lower_bound, upper_bound |-> index + 1]

\* lower_bound and upper_bound of the slice around the closest node
WindowBounds(path, position, rotation) ==
    LET index == ClosestIndex(path, position)
        closest == path[index + 1]
        in_front == IsInFront(Pt(closest.x, closest.y), rotation, position)
        lower_bound == Max(0, index - 1)
    IN  IF ~in_front
        THEN [lower_bound |-> index, upper_bound |-> Min(Len(path), index + 2)]
        ELSE IF lower_bound = 0
        THEN [lower_bound |-> lower_bound, upper_bound |-> index + 2]
        ELSE [lower_bound |-> lower_bound, upper_bound |-> index + 1]

\* closest_nodes = path[lower_bound:upper_bound]: a slice stops at the end
\* of the list
ClosestNodes(path, position, rotation) ==
    LET bounds == WindowBounds(path, position, rotation)
    IN  SubSeq(path, bounds.lower_bound + 1, Min(bounds.upper_bound, Len(path)))

\* the outcome of a call: an exception, or the pair (last, next)
\* the distances between the nodes of the straight routes
RouteSpacings == {2, 4}
\* the nodes of the other routes: ahead of a truck at the origin heading
\* along +z (two of them equally far), behind it, and beside it
RouteNodes ==
    { NavNode(1, 0, 1), NavNode(2, 2, 2), NavNode(3, 0, -3), NavNode(4, 1, 0),
      NavNode(5, 1, 0 - 1), NavNode(6, 0 - 1, 0) }

NavRaised == [raised |-> TRUE, last |-> NoNavNode, next |-> NoNavNode]
NavReturned(last, next) == [raised |-> FALSE, last |-> last, next |-> next]

get_surrounding_nav_nodes(route_nodes, x, z, rotation) ==
    LET position == Pt(x, z)
        path == route_nodes
    IN  IF path = <<>>
        THEN NavRaised                          \* distance_ordered[0]: IndexError
        ELSE
          LET closest_nodes == ClosestNodes(path, position, rotation)
              in_front == [i \in 1..Len(closest_nodes) |->
                             IsInFront(Pt(closest_nodes[i].x, closest_nodes[i].y),
                                       rotation, position)]
              behind == { i \in 1..Len(in_front) : ~in_front[i] }
              ahead == { i \in 1..Len(in_front) : in_front[i] }
          IN  IF behind = {} \/ ahead = {}      \* ValueError, caught
              THEN NavReturned(NoNavNode, NoNavNode)
              ELSE NavReturned(closest_nodes[SetMin(behind)],
                               closest_nodes[SetMin(ahead)])

\* ------------------------------------------------------------------------
\* numbers.py: SmoothedValue
\* ------------------------------------------------------------------------
\* the most calls of smooth() on one smoother, the latest reading of
\* time.perf_counter(), and the largest smoothingAmount
MaxPushes == 4
MaxClock == 3
MaxSmoothing == 3

\* the values given to smooth(): in "frames" mode and in "time" mode
FrameValues == {1, 2, 3, 4}
TimeValues == {1, 3}

RECURSIVE SeqSum(_)
SeqSum(values) ==
    IF values = <<>> THEN 0 ELSE Head(values) + SeqSum(Tail(values))

\* sum(values) / len(values), as the fraction <<numerator, denominator>>
Mean(values) == <<SeqSum(values), Len(values)>>

\* the object: its mode, its amount and its samples
SmoothedValue(type, amount, values) ==
    [smoothingType |-> type, smoothingAmount |-> amount, valueArray |-> values]

\* mutant: the history starts empty
SmoothedValueInitEmpty(type, amount, now) ==
    SmoothedValue(type, amount, <<>>)

\* __init__: one sample of value 0; a sample of the "time" mode is the pair
\* <<time.perf_counter(), value>>
SmoothedValueInit(type, amount, now) ==
    SmoothedValue(type, amount,
                  IF type = "frames" THEN <<0>> ELSE << <<now, 0>> >>)

\* mutant: a full deque refuses the new sample
DequeAppendKeepsOldest(d, maxlen, x) ==
    IF Len(d) < maxlen THEN Append(d, x) ELSE d

\* deque(maxlen=...).append(x): a full deque drops its oldest element
DequeAppend(d, maxlen, x) ==
    IF Len(d) < maxlen THEN Append(d, x) ELSE Append(Tail(d), x)

\* while len(valueArray) > 1 and newest time - oldest time > smoothingAmount:
\*     valueArray.popleft()
RECURSIVE PruneOld(_, _)
PruneOld(values, amount) ==
    IF Len(values) > 1 /\ values[Len(values)][1] - values[1][1] > amount
    THEN PruneOld(Tail(values), amount)
    ELSE values

\* [v for t, v in valueArray]
SampleValues(values) == [i \in 1..Len(values) |-> values[i][2]]

\* mutant: the "time" mode appends and drops nothing
smooth_without_pruning(self, value, now) ==
    IF self.smoothingType = "frames"
    THEN LET appended == DequeAppend(self.valueArray, self.smoothingAmount, value)
         IN  [self |-> [self EXCEPT !.valueArray = appended],
              value |-> Mean(appended)]
    ELSE LET kept == Append(self.valueArray, <<now, value>>)
         IN  [self |-> [self EXCEPT !.valueArray = kept],
              value |-> Mean(SampleValues(kept))]

\* smooth(value), called when time.perf_counter() reads `now`: the object
\* afterwards and the value returned
smooth(self, value, now) ==
    IF self.smoothingType = "frames"
    THEN LET appended == DequeAppend(self.valueArray, self.smoothingAmount, value)
         IN  [self |-> [self EXCEPT !.valueArray = appended],
              value |-> Mean(appended)]
    ELSE LET pruned == PruneOld(Append(self.valueArray, <<now, value>>),
                                self.smoothingAmount)
         IN  [self |-> [self EXCEPT !.valueArray = pruned],
              value |-> Mean(SampleValues(pruned))]

\* get()
get(self) ==
    IF self.smoothingType = "frames"
    THEN [self |-> self, value |-> Mean(self.valueArray)]
    ELSE LET pruned == PruneOld(self.valueArray, self.smoothingAmount)
         IN  [self |-> [self EXCEPT !.valueArray = pruned],
              value |-> IF pruned = <<>> THEN <<0, 1>> ELSE Mean(SampleValues(pruned))]

\* ------------------------------------------------------------------------
\* notifications.py: the connected clients and the calls that wait for one
\* of them to answer
\* ------------------------------------------------------------------------
\* timeout_seconds = 60, and the timeout of one condition.wait()
timeout_seconds == 60
WAIT_TIMEOUT == 1
\* the most connections ever accepted
MaxConnections == 2
\* a message of a client that is not the JSON text null
ANSWER == 1

\* `connected`, a dict: its entries in insertion order; a removed key leaves
\* a dead entry behind, which is what an iterator walks over
DictLive(d, key) == { i \in 1..Len(d) : d[i].live /\ d[i].ws = key }
DictLen(d) == Cardinality({ i \in 1..Len(d) : d[i].live })
\* d[key], for a key of the dict
DictGet(d, key) == d[SetMin(DictLive(d, key))].message
\* d[key] = message
DictSet(d, key, message) ==
    IF DictLive(d, key) = {}
    THEN Append(d, [ws |-> key, message |-> message, live |-> TRUE])
    ELSE [d EXCEPT ![SetMin(DictLive(d, key))].message = message]
\* d.pop(key, None)
DictPop(d, key) ==
    [i \in 1..Len(d) |->
        IF d[i].live /\ d[i].ws = key
        THEN [ws |-> key, message |-> None, live |-> FALSE]
        ELSE d[i]]

\* `for ws in connected`: the iterator remembers the size of the dict, its
\* position in the entries and how many keys it has left to give
DictIter(d) == [used |-> DictLen(d), pos |-> 0, left |-> DictLen(d)]
\* next(iterator): RuntimeError when the dict changed size or keys since the
\* iterator was made, StopIteration at the end, the next key otherwise
DictIterNext(d, it) ==
    LET later == { i \in (it.pos + 1)..Len(d) : d[i].live }
    IN  IF it.used # DictLen(d)
        THEN [kind |-> "RuntimeError", ws |-> None, it |-> it]
        ELSE IF later = {}
        THEN [kind |-> "StopIteration", ws |-> None, it |-> it]
        ELSE IF it.left = 0
        THEN [kind |-> "RuntimeError", ws |-> None, it |-> it]
        ELSE [kind |-> "next", ws |-> d[SetMin(later)].ws,
              it |-> [it EXCEPT !.pos = SetMin(later), !.left = @ - 1]]

\* how a call of send_ask / send_dialog ends
AskReturned(value) == [raised |-> FALSE, value |-> value]
AskRaised == [raised |-> TRUE, value |-> None]

\* ------------------------------------------------------------------------
\* logs.py: the game's log file and the Log object that tails it
\* ------------------------------------------------------------------------
\* the most lines the file holds, the most lines the game writes, and the
\* most times the game starts a new log
MaxLogLines == 3
MaxLogWrites == 3
MaxLogResets == 1

\* the lines of the file.  A creation line carries the time parsed from it;
\* an entry line HH:MM:SS.mmm : text carries its offset and its text (every
\* line written has a text of its own); any other line does not parse
CreationLine(time) == [kind |-> "creation", time |-> time, text |-> 0]
EntryLine(offset, text) == [kind |-> "entry", time |-> offset, text |-> text]
JunkLine == [kind |-> "junk", time |-> 0, text |-> 0]

\* the times of "log created on" lines and the offsets of entry lines
CreationTimes == {10}
EntryOffsets == {1, 2}

\* the file: whether os.path.getmtime / getsize and open() succeed ("ok"),
\* both fail ("missing"), or only open() fails ("locked"); its lines; its
\* modification time
LogFile(status, lines, modified) ==
    [status |-> status, lines |-> lines, modified |-> modified]

LogMessage(timestamp, message) == [timestamp |-> timestamp, message |-> message]

\* the Log object; positions and sizes are counted in lines
Log(messages, start_time, last_modified, last_position, last_file_size) ==
    [messages |-> messages, _start_time |-> start_time,
     _last_modified |-> last_modified, _last_position |-> last_position,
     _last_file_size |-> last_file_size]

\* parse_creation_line
parse_creation_line(self, line) ==
    IF line.kind = "creation"
    THEN [self EXCEPT !._start_time = line.time, !.messages = <<>>]
    ELSE self

\* the loop over the lines read: new_messages.  A line that does not parse
\* is skipped, and so is one whose timestamp is not after latest_message
ParseLines(lines, start_time, latest_message) ==
    LET Latest[n \in 0..Len(lines)] ==
            IF n = 0 THEN latest_message
            ELSE IF lines[n].kind = "entry" /\ start_time + lines[n].time > Latest[n - 1]
            THEN start_time + lines[n].time
            ELSE Latest[n - 1]
        Nth[n \in 0..Len(lines)] ==
            IF n = 0 THEN <<>>
            ELSE IF lines[n].kind = "entry" /\ start_time + lines[n].time > Latest[n - 1]
            THEN Append(Nth[n - 1], LogMessage(start_time + lines[n].time, lines[n].text))
            ELSE Nth[n - 1]
    IN  Nth[Len(lines)]

\* how a call of update() ends
UpdateReturned(self, new_messages) ==
    [self |-> self, raised |-> FALSE, value |-> new_messages]
UpdateRaised(self) == [self |-> self, raised |-> TRUE, value |-> <<>>]

\* update(): the object afterwards and what the call returned
update(self, file) ==
    IF file.status = "missing"
    THEN UpdateReturned(self, <<>>)
    ELSE IF ~(file.modified > self._last_modified)
    THEN UpdateReturned(self, <<>>)
    ELSE IF file.status = "locked"
    THEN UpdateRaised([self EXCEPT !._last_modified = file.modified])
    ELSE LET file_size == Len(file.lines)
             log_was_reset == file_size < self._last_file_size \/ self.messages = <<>>
             cleared == [self EXCEPT !.messages = <<>>]
             opened ==
                 IF ~log_was_reset THEN self
                 ELSE IF file.lines = <<>> THEN cleared
                 ELSE parse_creation_line(cleared, file.lines[1])
             lines ==
                 IF ~log_was_reset
                 THEN SubSeq(file.lines, self._last_position + 1, Len(file.lines))
                 ELSE IF file.lines = <<>> THEN <<>>
                 ELSE Tail(file.lines)
             tell == IF log_was_reset THEN Len(file.lines)
                     ELSE Max(self._last_position, Len(file.lines))
             latest_message ==
                 IF opened.messages = <<>> THEN 0
                 ELSE opened.messages[Len(opened.messages)].timestamp
             new_messages == ParseLines(lines, opened._start_time, latest_message)
         IN  UpdateReturned(Log(opened.messages \o new_messages, opened._start_time,
                                file.modified, tell, file_size),
                            new_messages)

\* ------------------------------------------------------------------------
\* State
\* ------------------------------------------------------------------------
VARIABLES
    \* lane_safety.py module state
    _pending_lane_change, _target_lane_index, _slow_down_for_lane_change,
    \* what the collaborators currently offer: the Traffic module, the truck pose
    traffic, truck,
    \* the most recent step ("init", "telemetry", "evaluate", "reset"), the
    \* arguments of the call it made and what the call returned
    lastOp, args, ret,
    \* "unsafe" / "safe": what the most recent evaluate returned, if no reset
    \* came after it; "none" otherwise
    lastEval,
    \* whether a change was pending when the most recent call was made
    prePending,
    \* the target_lane_index argument of the most recent call of
    \* check_lane_safety that returned False (None: there was none)
    lastUnsafeTarget,
    \* a call of a node helper: which helper ("item_uid", "lanes"), its
    \* arguments, whether it has run ("ready", "done") and what it returned
    nodeOp, node_1, node_2, item, nodePc, uidResult, lanesResult,
    \* get_surrounding_nav_nodes: the route, the truck pose, the slice around
    \* the closest node that the call looked at, and what the call returned
    route_nodes, navPose, closest_nodes, navResult,
    \* rotate_left / rotate_right: the list given to the first call, the
    \* list as it is now, the count, the calls made so far in order, and
    \* whether the last of them raised
    rotOriginal, arr, count, rotCalls, rotRaised,
    \* a SmoothedValue object, the reading of time.perf_counter(), the values
    \* given to smooth() so far, the most recent call ("init", "smooth",
    \* "get") and the value it returned
    smoothingType, smoothingAmount, valueArray, perf_counter,
    pushed, smoothOp, smoothRet,
    \* notifications.py: the dict `connected`, the connections whose handler
    \* is running, the next connection; the call of send_ask / send_dialog:
    \* where it is ("idle", "waiting", "scan", "lookup", "clear", "check",
    \* "done"), its arguments, its local `response`, the seconds since its
    \* start_time, whether its condition.wait() has lasted for its timeout
    \* and whether it was notified, the iterator and the variable of its for
    \* loop and how it ended; the connections whose stored message was sent
    \* before the latest question, and whether `response` is one of these
    connected, handlers, nextWs, askPc, askArgs, response, elapsed,
    waited, notified, iterator, ws, askResult, early, stale,
    \* logs.py: the fields of a Log object; the log file, how many lines
    \* the game has written and how many logs it has started; the most
    \* recent step ("init", "file", "update"), what the last update()
    \* returned and the object as it was before that call; the texts that
    \* update() has returned, and whether it returned one of them twice
    messages, _start_time, _last_modified, _last_position, _last_file_size,
    logFile, written, logResets, logOp, logRet, logPre, returned, returnedTwice

safetyVars ==
    <<_pending_lane_change, _target_lane_index, _slow_down_for_lane_change,
      traffic, truck, lastOp, args, ret, lastEval, prePending,
      lastUnsafeTarget>>

\* the module state as one record
CurrentLaneState ==
    LaneState(_pending_lane_change, _target_lane_index, _slow_down_for_lane_change)

NoArgs == [target |-> None, current |-> None, road |-> RoadWithoutLanes]
NoRet == [safe |-> TRUE, factor |-> SqOne]

nodeVars ==
    <<nodeOp, node_1, node_2, item, nodePc, uidResult, lanesResult,
      route_nodes, navPose, closest_nodes, navResult,
      rotOriginal, arr, count, rotCalls, rotRaised>>

NoItem == [kind |-> "Other"]

smoothVars ==
    <<smoothingType, smoothingAmount, valueArray, perf_counter,
      pushed, smoothOp, smoothRet>>

notifyVars ==
    <<connected, handlers, nextWs, askPc, askArgs, response, elapsed,
      waited, notified, iterator, ws, askResult, early, stale>>

\* no client has connected and nothing has been asked
NotifyIdle ==
    /\ connected = <<>>
    /\ handlers = {}
    /\ nextWs = 1
    /\ askPc = "idle"
    /\ askArgs = [name |-> "none", no_response |-> FALSE]
    /\ response = None
    /\ elapsed = 0
    /\ waited = FALSE
    /\ notified = FALSE
    /\ iterator = DictIter(<<>>)
    /\ ws = None
    /\ askResult = AskReturned(None)
    /\ early = {}
    /\ stale = FALSE

logVars ==
    <<messages, _start_time, _last_modified, _last_position, _last_file_size,
      logFile, written, logResets, logOp, logRet, logPre, returned, returnedTwice>>

\* the Log object as one record
CurrentLog ==
    Log(messages, _start_time, _last_modified, _last_position, _last_file_size)

\* Log.__init__, with time.perf_counter() reading 0
NewLog == Log(<<>>, 0, 0, 0, 0)

\* a new Log object and a log file that is not there
LogIdle ==
    /\ messages = NewLog.messages
    /\ _start_time = NewLog._start_time
    /\ _last_modified = NewLog._last_modified
    /\ _last_position = NewLog._last_position
    /\ _last_file_size = NewLog._last_file_size
    /\ logFile = LogFile("missing", <<>>, 0)
    /\ written = 0
    /\ logResets = 0
    /\ logOp = "init"
    /\ logRet = [raised |-> FALSE, value |-> <<>>]
    /\ logPre = NewLog
    /\ returned = {}
    /\ returnedTwice = FALSE

\* the variables of the components beside lane_safety and node_helpers
helperVars == <<smoothVars, notifyVars, logVars>>

\* the SmoothedValue object as one record
CurrentSmoothedValue == SmoothedValue(smoothingType, smoothingAmount, valueArray)

\* a smoother of the default mode that is not used
SmoothIdle ==
    /\ smoothingType = "frames"
    /\ smoothingAmount = 1
    /\ valueArray = <<0>>
    /\ perf_counter = 0
    /\ pushed = <<>>
    /\ smoothOp = "init"
    /\ smoothRet = <<0, 1>>

HelpersIdle == SmoothIdle /\ NotifyIdle /\ LogIdle

\* no route is being looked at
NavIdle ==
    /\ route_nodes = <<>>
    /\ navPose = [x |-> 0, z |-> 0, rot |-> 0]
    /\ closest_nodes = <<>>
    /\ navResult = NavReturned(NoNavNode, NoNavNode)

\* no list is being rotated
RotateIdle ==
    /\ rotOriginal = <<>>
    /\ arr = <<>>
    /\ count = 0
    /\ rotCalls = <<>>
    /\ rotRaised = FALSE

\* no node helper is being called
NodesIdle ==
    /\ nodeOp = "none"
    /\ node_1 = Node(1, None, None)
    /\ node_2 = Node(2, None, None)
    /\ item = NoItem
    /\ nodePc = "done"
    /\ uidResult = None
    /\ lanesResult = Returned(<<>>)
    /\ NavIdle
    /\ RotateIdle

InitSafety ==
    /\ NodesIdle
    /\ HelpersIdle
    /\ _pending_lane_change = FALSE
    /\ _target_lane_index = None
    /\ _slow_down_for_lane_change = FALSE
    /\ traffic = [kind |-> "no_plugin", vehicles |-> <<>>]
    /\ truck \in TruckPoses
    /\ lastOp = "init"
    /\ args = NoArgs
    /\ ret = NoRet
    /\ lastEval = "none"
    /\ prePending = FALSE
    /\ lastUnsafeTarget = None

\* ------------------------------------------------------------------------
\* Telemetry: the collaborators change between calls
\* ------------------------------------------------------------------------
Telemetry ==
    /\ lastOp' = "telemetry"
    /\ args' = NoArgs
    /\ ret' = NoRet
    /\ prePending' = FALSE
    /\ UNCHANGED <<_pending_lane_change, _target_lane_index,
                   _slow_down_for_lane_change, lastEval, lastUnsafeTarget>>
    /\ UNCHANGED <<nodeVars, helperVars>>

\* one more vehicle is reported, at the end of the list
VehicleAppears ==
    /\ traffic.kind = "returns"
    /\ Len(traffic.vehicles) < MaxVehicles
    /\ \E p \in VehiclePositions :
         traffic' = [traffic EXCEPT !.vehicles = Append(@, Vehicle(p))]
    /\ UNCHANGED truck
    /\ Telemetry

\* the Traffic module goes away, fails, or starts over with an empty list
TrafficChanges ==
    /\ \E k \in TrafficKinds : traffic' = [kind |-> k, vehicles |-> <<>>]
    /\ UNCHANGED truck
    /\ Telemetry

TruckMoves ==
    /\ \E pose \in TruckPoses : truck' = pose
    /\ UNCHANGED traffic
    /\ Telemetry

\* ------------------------------------------------------------------------
\* The calls
\* ------------------------------------------------------------------------
Evaluate ==
    \E target \in LaneIndices, current \in CurrentLaneIndices, road \in Roads :
      LET r == check_lane_safety(target, current, road, CurrentLaneState, traffic, truck)
      IN  /\ _pending_lane_change' = r.state.pending
          /\ _target_lane_index' = r.state.target
          /\ _slow_down_for_lane_change' = r.state.slow
          /\ lastOp' = "evaluate"
          /\ args' = [target |-> target, current |-> current, road |-> road]
          /\ ret' = [safe |-> r.safe, factor |-> r.factor]
          /\ lastEval' = IF r.safe THEN "safe" ELSE "unsafe"
          /\ prePending' = _pending_lane_change
          /\ lastUnsafeTarget' = IF r.safe THEN lastUnsafeTarget ELSE target
          /\ UNCHANGED <<traffic, truck>>
          /\ UNCHANGED <<nodeVars, helperVars>>

Reset ==
    LET s == reset_lane_change_state(CurrentLaneState)
    IN  /\ _pending_lane_change' = s.pending
        /\ _target_lane_index' = s.target
        /\ _slow_down_for_lane_change' = s.slow
        /\ lastOp' = "reset"
        /\ args' = NoArgs
        /\ ret' = NoRet
        /\ lastEval' = "none"
        /\ prePending' = _pending_lane_change
        /\ UNCHANGED <<traffic, truck, lastUnsafeTarget>>
        /\ UNCHANGED <<nodeVars, helperVars>>

vars == <<safetyVars, nodeVars, helperVars>>

NextSafety == VehicleAppears \/ TrafficChanges \/ TruckMoves \/ Evaluate \/ Reset

SpecSafety == InitSafety /\ [][NextSafety]_vars

\* ------------------------------------------------------------------------
\* The node helpers: pure functions, applied to inputs drawn at the start
\* ------------------------------------------------------------------------
\* the lane_safety module is loaded and idle
SafetyIdle ==
    /\ _pending_lane_change = FALSE
    /\ _target_lane_index = None
    /\ _slow_down_for_lane_change = FALSE
    /\ traffic = [kind |-> "no_plugin", vehicles |-> <<>>]
    /\ truck = [x |-> 0, z |-> 0, rot |-> 0]
    /\ lastOp = "init"
    /\ args = NoArgs
    /\ ret = NoRet
    /\ lastEval = "none"
    /\ prePending = FALSE
    /\ lastUnsafeTarget = None

SeqsUpTo(S, n) == UNION { [1..k -> S] : k \in 0..n }

\* road_look: None, or a look with l left and r right lanes
NoneLook == [is_none |-> TRUE, lanes_left |-> <<>>, lanes_right |-> <<>>]
RoadLook(l, r) ==
    [is_none |-> FALSE,
     lanes_left |-> [i \in 1..l |-> "lane"],
     lanes_right |-> [i \in 1..r |-> "lane"]]
RoadLooks == {NoneLook} \cup { RoadLook(l, r) : l \in 0..MaxLanes, r \in 0..MaxLanes }
RoadItem(look, start) == [kind |-> "Road", road_look |-> look, start_node_uid |-> start]

\* prefab descriptions
PrefabNode(inputs, outputs) == [input_lanes |-> inputs, output_lanes |-> outputs]
Route(curves) == [curves |-> curves]
NoneDescription ==
    [is_none |-> TRUE, nodes |-> <<>>, nav_curves |-> <<>>, nav_routes |-> <<>>]
Description(nodes, nav_curves, nav_routes) ==
    [is_none |-> FALSE, nodes |-> nodes, nav_curves |-> nav_curves,
     nav_routes |-> nav_routes]
PrefabItem(description, node_uids, origin) ==
    [kind |-> "Prefab", prefab_description |-> description,
     node_uids |-> node_uids, origin_node_index |-> origin]

\* a three-way junction: curve a runs from node 0 to node 1, b from 1 to 2,
\* c from 2 to 0
Junction3 ==
    Description(<<PrefabNode({0}, {2}), PrefabNode({1}, {0}), PrefabNode({2}, {1})>>,
                <<"a", "b", "c">>,
                <<Route(<<"a">>), Route(<<"b">>), Route(<<"c">>), Route(<<"a", "b">>)>>)
\* a description with fewer nodes than the prefabs that use it
Junction2 ==
    Description(<<PrefabNode({0}, {1}), PrefabNode({1}, {0})>>,
                <<"a", "b">>,
                <<Route(<<"a">>), Route(<<"b">>)>>)

\* the curves of the route scan: two navigation curves and one curve that
\* is not among the description's navigation curves
ScanNavCurves == <<"a", "b">>
ScanCurves == {"a", "b", "x"}
ScanInputLanes == {{}, {0}, {0, 1}}
ScanOutputLanes == {{1}, {0, 1}}
\* a two-node description whose start input lanes, end output lanes and
\* routes are free
ScanDescription(inputs, outputs, routes) ==
    Description(<<PrefabNode(inputs, {0, 1} \ inputs),
                  PrefabNode({0, 1} \ outputs, outputs)>>,
                ScanNavCurves, routes)

\* inputs of get_connecting_item_uid
InitItemUid ==
    /\ nodeOp = "item_uid"
    /\ \E f1 \in ItemUids, b1 \in ItemUids, f2 \in ItemUids, b2 \in ItemUids :
         /\ node_1 = Node(1, f1, b1)
         /\ node_2 = Node(2, f2, b2)
    /\ item = NoItem

\* inputs of get_connecting_lanes_by_item: a road
InitRoad ==
    /\ nodeOp = "lanes"
    /\ \E u \in {1, 2} :
         /\ node_1 = Node(u, None, None)
         /\ node_2 = Node(3 - u, None, None)
    /\ \E look \in RoadLooks, start \in {1, 2} : item = RoadItem(look, start)

\* inputs of get_connecting_lanes_by_item: prefabs with any boundary nodes
InitPrefabNodes ==
    /\ nodeOp = "lanes"
    /\ \E u1 \in {1, 2}, u2 \in {1, 2} :
         /\ node_1 = Node(u1, None, None)
         /\ node_2 = Node(u2, None, None)
    /\ \E description \in {NoneDescription, Junction3, Junction2},
          node_uids \in SeqsUpTo(KnownNodeUids \cup {UnknownNodeUid}, MaxPrefabNodes),
          origin \in 0..MaxPrefabNodes :
         item = PrefabItem(description, node_uids, origin)

\* inputs of get_connecting_lanes_by_item: a two-node prefab with any routes
InitPrefabRoutes ==
    /\ nodeOp = "lanes"
    /\ \E u \in {1, 2} :
         /\ node_1 = Node(u, None, None)
         /\ node_2 = Node(3 - u, None, None)
    /\ \E inputs \in ScanInputLanes, outputs \in ScanOutputLanes,
          routes \in SeqsUpTo({ Route(c) : c \in SeqsUpTo(ScanCurves, MaxCurves) }, MaxRoutes) :
         item = PrefabItem(ScanDescription(inputs, outputs, routes), <<1, 2>>, 0)

\* a straight route of equally spaced nodes along the y axis, the truck on
\* its line, heading up or down the route
InitStraightRoute ==
    /\ nodeOp = "surrounding"
    /\ \E n \in 2..MaxRouteNodes, spacing \in RouteSpacings :
         /\ route_nodes = [i \in 1..n |-> NavNode(i - 1, 0, spacing * (i - 1))]
         /\ \E z \in (-1)..(spacing * (n - 1) + 1), rot \in {0, 2} :
              navPose = [x |-> 0, z |-> z, rot |-> rot]

\* any short route over a few nodes around the truck, the empty route
\* included
InitAnyRoute ==
    /\ nodeOp = "surrounding"
    /\ route_nodes \in SeqsUpTo(RouteNodes, MaxShortRoute)
    /\ \E rot \in {0, 1} : navPose = [x |-> 0, z |-> 0, rot |-> rot]

\* inputs of rotate_left and rotate_right
InitRotate ==
    /\ nodeOp = "rotate"
    /\ rotOriginal \in SeqsUpTo(KnownNodeUids, MaxPrefabNodes)
    /\ arr = rotOriginal
    /\ count \in (-1)..(MaxPrefabNodes + 1)
    /\ rotCalls = <<>>
    /\ rotRaised = FALSE

\* no connecting item or lane is being asked for
ItemIdle ==
    /\ node_1 = Node(1, None, None)
    /\ node_2 = Node(2, None, None)
    /\ item = NoItem

InitNodes ==
    /\ SafetyIdle
    /\ HelpersIdle
    /\ nodePc = "ready"
    /\ uidResult = None
    /\ lanesResult = Returned(<<>>)
    /\ closest_nodes = <<>>
    /\ navResult = NavReturned(NoNavNode, NoNavNode)
    /\ \/ InitItemUid /\ NavIdle /\ RotateIdle
       \/ InitRoad /\ NavIdle /\ RotateIdle
       \/ ItemIdle /\ nodeOp = "lanes" /\ NavIdle /\ RotateIdle
       \/ InitPrefabNodes /\ NavIdle /\ RotateIdle
       \/ InitPrefabRoutes /\ NavIdle /\ RotateIdle
       \/ InitStraightRoute /\ ItemIdle /\ RotateIdle
       \/ InitAnyRoute /\ ItemIdle /\ RotateIdle
       \/ InitRotate /\ ItemIdle /\ NavIdle

ConnectingItemUid ==
    /\ nodePc = "ready"
    /\ nodeOp = "item_uid"
    /\ uidResult' = get_connecting_item_uid(node_1, node_2)
    /\ nodePc' = "done"
    /\ UNCHANGED <<nodeOp, node_1, node_2, item, lanesResult>>
    /\ UNCHANGED <<route_nodes, navPose, closest_nodes, navResult>>
    /\ UNCHANGED <<rotOriginal, arr, count, rotCalls, rotRaised>>
    /\ UNCHANGED <<safetyVars, helperVars>>

ConnectingLanesByItem ==
    /\ nodePc = "ready"
    /\ nodeOp = "lanes"
    /\ lanesResult' = get_connecting_lanes_by_item(node_1, node_2, item)
    /\ nodePc' = "done"
    /\ UNCHANGED <<nodeOp, node_1, node_2, item, uidResult>>
    /\ UNCHANGED <<route_nodes, navPose, closest_nodes, navResult>>
    /\ UNCHANGED <<rotOriginal, arr, count, rotCalls, rotRaised>>
    /\ UNCHANGED <<safetyVars, helperVars>>

SurroundingNavNodes ==
    /\ nodePc = "ready"
    /\ nodeOp = "surrounding"
    /\ navResult' = get_surrounding_nav_nodes(route_nodes, navPose.x, navPose.z,
                                               navPose.rot)
    /\ closest_nodes' = IF route_nodes = <<>>
                         THEN <<>>
                         ELSE ClosestNodes(route_nodes, Pt(navPose.x, navPose.z),
                                           navPose.rot)
    /\ nodePc' = "done"
    /\ UNCHANGED <<nodeOp, node_1, node_2, item, uidResult, lanesResult>>
    /\ UNCHANGED <<route_nodes, navPose>>
    /\ UNCHANGED <<rotOriginal, arr, count, rotCalls, rotRaised>>
    /\ UNCHANGED <<safetyVars, helperVars>>

\* one more call on the list the previous call returned
Rotate(name, result) ==
    /\ ~rotRaised
    /\ Len(rotCalls) < MaxRotations
    /\ rotCalls' = Append(rotCalls, name)
    /\ rotRaised' = result.raised
    /\ arr' = IF result.raised THEN arr ELSE result.value
    /\ nodePc' = "done"
    /\ UNCHANGED <<nodeOp, node_1, node_2, item, uidResult, lanesResult>>
    /\ UNCHANGED <<route_nodes, navPose, closest_nodes, navResult>>
    /\ UNCHANGED <<rotOriginal, count>>
    /\ UNCHANGED <<safetyVars, helperVars>>

RotateLeft ==
    /\ nodeOp = "rotate"
    /\ Rotate("rotate_left", rotate_left(arr, count))

RotateRight ==
    /\ nodeOp = "rotate"
    /\ Rotate("rotate_right", rotate_right(arr, count))

NextNodes ==
    \/ ConnectingItemUid
    \/ ConnectingLanesByItem
    \/ SurroundingNavNodes
    \/ RotateLeft
    \/ RotateRight

SpecNodes == InitNodes /\ [][NextNodes]_vars

\* ------------------------------------------------------------------------
\* The smoother: one object, constructed and then used
\* ------------------------------------------------------------------------
InitSmooth ==
    /\ SafetyIdle
    /\ NodesIdle
    /\ NotifyIdle
    /\ LogIdle
    /\ smoothingType \in {"frames", "time"}
    /\ smoothingAmount \in 1..MaxSmoothing
    /\ perf_counter = 0
    /\ valueArray = SmoothedValueInit(smoothingType, smoothingAmount, perf_counter).valueArray
    /\ pushed = <<>>
    /\ smoothOp = "init"
    /\ smoothRet = <<0, 1>>

Smooth ==
    /\ Len(pushed) < MaxPushes
    /\ \E value \in (IF smoothingType = "frames" THEN FrameValues ELSE TimeValues) :
         LET r == smooth(CurrentSmoothedValue, value, perf_counter)
         IN  /\ valueArray' = r.self.valueArray
             /\ smoothRet' = r.value
             /\ pushed' = Append(pushed, value)
    /\ smoothOp' = "smooth"
    /\ UNCHANGED <<smoothingType, smoothingAmount, perf_counter>>
    /\ UNCHANGED <<safetyVars, nodeVars, notifyVars, logVars>>

Get ==
    /\ LET r == get(CurrentSmoothedValue)
       IN  /\ valueArray' = r.self.valueArray
           /\ smoothRet' = r.value
    /\ smoothOp' = "get"
    /\ UNCHANGED <<smoothingType, smoothingAmount, perf_counter, pushed>>
    /\ UNCHANGED <<safetyVars, nodeVars, notifyVars, logVars>>

\* time passes between two calls
ClockAdvances ==
    /\ smoothingType = "time"
    /\ perf_counter < MaxClock
    /\ perf_counter' = perf_counter + 1
    /\ UNCHANGED <<smoothingType, smoothingAmount, valueArray, pushed,
                   smoothOp, smoothRet>>
    /\ UNCHANGED <<safetyVars, nodeVars, notifyVars, logVars>>

NextSmooth == Smooth \/ Get \/ ClockAdvances

SpecSmooth == InitSmooth /\ [][NextSmooth]_vars

\* ------------------------------------------------------------------------
\* The notification server: the handlers of the connections run on the
\* server thread, send_ask / send_dialog on the thread of the persistent
\* event loop; the waiting call holds `condition` from the return of
\* condition.wait() to the end of its scan of `connected`
\* ------------------------------------------------------------------------
InitNotify ==
    /\ SafetyIdle
    /\ NodesIdle
    /\ SmoothIdle
    /\ NotifyIdle
    /\ LogIdle

ConditionHeld == askPc \in {"scan", "lookup", "clear"}
CallRunning == askPc \notin {"idle", "done"}

\* server(): a new connection is entered into `connected`
Connect ==
    /\ nextWs <= MaxConnections
    /\ handlers' = handlers \cup {nextWs}
    /\ connected' = DictSet(connected, nextWs, None)
    /\ nextWs' = nextWs + 1
    /\ UNCHANGED <<askPc, askArgs, response, elapsed, waited, notified,
                   iterator, ws, askResult, early, stale>>
    /\ UNCHANGED <<safetyVars, nodeVars, smoothVars, logVars>>

\* server(): a message arrives and is stored under `condition`; a client
\* that sends the JSON text null stores None
Receive ==
    /\ ~ConditionHeld
    /\ \E w \in handlers, message \in {ANSWER, None} :
         /\ connected' = DictSet(connected, w, message)
         /\ early' = early \ {w}
    /\ notified' = (notified \/ askPc = "waiting")
    /\ UNCHANGED <<handlers, nextWs, askPc, askArgs, response, elapsed,
                   waited, iterator, ws, askResult, stale>>
    /\ UNCHANGED <<safetyVars, nodeVars, smoothVars, logVars>>

\* server(): recv() fails, the handler leaves its loop and pops its entry
Disconnect ==
    /\ \E w \in handlers :
         /\ handlers' = handlers \ {w}
         /\ connected' = DictPop(connected, w)
         /\ early' = early \ {w}
    /\ UNCHANGED <<nextWs, askPc, askArgs, response, elapsed, waited,
                   notified, iterator, ws, askResult, stale>>
    /\ UNCHANGED <<safetyVars, nodeVars, smoothVars, logVars>>

\* send_ask(...) / send_dialog(..., no_response): the question is sent to
\* every client, then the call waits unless it was told not to
Call ==
    /\ ~CallRunning
    /\ early' = { connected[i].ws : i \in { j \in 1..Len(connected) :
                      connected[j].live /\ connected[j].message # None } }
    /\ stale' = FALSE
    /\ \E a \in { [name |-> "send_ask", no_response |-> FALSE],
                  [name |-> "send_dialog", no_response |-> FALSE],
                  [name |-> "send_dialog", no_response |-> TRUE] } :
         /\ askArgs' = a
         /\ askPc' = IF a.no_response THEN "done" ELSE "waiting"
         /\ askResult' = IF a.no_response THEN AskReturned(None) ELSE askResult
    /\ response' = None
    /\ elapsed' = 0
    /\ waited' = FALSE
    /\ notified' = FALSE
    /\ UNCHANGED <<connected, handlers, nextWs, iterator, ws>>
    /\ UNCHANGED <<safetyVars, nodeVars, smoothVars, logVars>>

\* condition.wait(timeout=1.0) returns, notified or timed out, and the scan
\* `for ws in connected` begins
WaitReturns ==
    /\ askPc = "waiting"
    /\ notified \/ waited
    /\ iterator' = DictIter(connected)
    /\ askPc' = "scan"
    /\ waited' = FALSE
    /\ notified' = FALSE
    /\ UNCHANGED <<connected, handlers, nextWs, askArgs, response, elapsed,
                   ws, askResult, early, stale>>
    /\ UNCHANGED <<safetyVars, nodeVars, smoothVars, logVars>>

\* the call is over: its locals are gone
Finished(result) ==
    /\ askPc' = "done"
    /\ askResult' = result
    /\ response' = None
    /\ iterator' = DictIter(<<>>)
    /\ ws' = None

\* the for statement asks the iterator for the next key
ScanNext ==
    /\ askPc = "scan"
    /\ LET r == DictIterNext(connected, iterator)
       IN  CASE r.kind = "next" ->
                  /\ iterator' = r.it
                  /\ ws' = r.ws
                  /\ askPc' = "lookup"
                  /\ UNCHANGED <<response, askResult>>
             [] r.kind = "StopIteration" ->
                  /\ askPc' = "check"
                  /\ UNCHANGED <<iterator, ws, response, askResult>>
             [] OTHER -> Finished(AskRaised)
    /\ UNCHANGED <<connected, handlers, nextWs, askArgs, elapsed,
                   waited, notified, early, stale>>
    /\ UNCHANGED <<safetyVars, nodeVars, smoothVars, logVars>>

\* response = connected[ws]
Lookup ==
    /\ askPc = "lookup"
    /\ IF DictLive(connected, ws) = {}
       THEN Finished(AskRaised)                      \* KeyError
       ELSE /\ response' = DictGet(connected, ws)
            /\ askPc' = IF response' # None THEN "clear" ELSE "scan"
            /\ UNCHANGED <<iterator, ws, askResult>>
    /\ stale' = (ws \in early)
    /\ UNCHANGED <<connected, handlers, nextWs, askArgs, elapsed, waited,
                   notified, early>>
    /\ UNCHANGED <<safetyVars, nodeVars, smoothVars, logVars>>

\* connected[ws] = None; break
Clear ==
    /\ askPc = "clear"
    /\ connected' = DictSet(connected, ws, None)
    /\ askPc' = "check"
    /\ early' = early \ {ws}
    /\ UNCHANGED <<handlers, nextWs, askArgs, response, elapsed, waited,
                   notified, iterator, ws, askResult, stale>>
    /\ UNCHANGED <<safetyVars, nodeVars, smoothVars, logVars>>

\* the total timeout is checked, then `while response is None`
CheckTimeout ==
    /\ askPc = "check"
    /\ IF elapsed > timeout_seconds
       THEN Finished(AskReturned(None))
       ELSE IF response # None
       THEN Finished(AskReturned(response))
       ELSE /\ askPc' = "waiting"
            /\ iterator' = DictIter(<<>>)
            /\ ws' = None
            /\ UNCHANGED <<response, askResult>>
    /\ UNCHANGED <<connected, handlers, nextWs, askArgs, elapsed,
                   waited, notified, early, stale>>
    /\ UNCHANGED <<safetyVars, nodeVars, smoothVars, logVars>>

\* a second passes on the clock of the event loop
SecondPasses ==
    /\ CallRunning
    /\ elapsed <= timeout_seconds
    /\ elapsed' = elapsed + WAIT_TIMEOUT
    /\ waited' = (askPc = "waiting")
    /\ UNCHANGED <<connected, handlers, nextWs, askPc, askArgs, response,
                   notified, iterator, ws, askResult, early, stale>>
    /\ UNCHANGED <<safetyVars, nodeVars, smoothVars, logVars>>

NextNotify ==
    \/ Connect \/ Receive \/ Disconnect
    \/ Call \/ WaitReturns \/ ScanNext \/ Lookup \/ Clear \/ CheckTimeout
    \/ SecondPasses

SpecNotify == InitNotify /\ [][NextNotify]_vars

\* ------------------------------------------------------------------------
\* SpecLog: a Log object, the game that writes the log file, and update()
\* ------------------------------------------------------------------------
InitLog ==
    /\ SafetyIdle
    /\ NodesIdle
    /\ SmoothIdle
    /\ NotifyIdle
    /\ messages = NewLog.messages
    /\ _start_time = NewLog._start_time
    /\ _last_modified = NewLog._last_modified
    /\ _last_position = NewLog._last_position
    /\ _last_file_size = NewLog._last_file_size
    /\ \E status \in {"ok", "missing"}, lines \in {<<>>} \cup {<<CreationLine(t)>> : t \in CreationTimes} :
         logFile = LogFile(status, lines, 1)
    /\ written = 0
    /\ logResets = 0
    /\ logOp = "init"
    /\ logRet = [raised |-> FALSE, value |-> <<>>]
    /\ logPre = NewLog
    /\ returned = {}
    /\ returnedTwice = FALSE

\* what every step of the game and of the file system leaves alone
FileStep ==
    /\ logOp' = "file"
    /\ UNCHANGED <<messages, _start_time, _last_modified, _last_position,
                   _last_file_size, logRet, logPre, returned, returnedTwice>>
    /\ UNCHANGED <<safetyVars, nodeVars, smoothVars, notifyVars>>

\* the game appends a line; the modification time moves on unless the write
\* falls into the same tick of the file system's clock as the one before
WriteLine ==
    /\ logFile.status # "missing"
    /\ Len(logFile.lines) < MaxLogLines
    /\ written < MaxLogWrites
    /\ written' = written + 1
    /\ \E line \in {EntryLine(o, written + 1) : o \in EntryOffsets} \cup {JunkLine},
          tick \in {0, 1} :
         logFile' = LogFile(logFile.status, Append(logFile.lines, line),
                            logFile.modified + tick)
    /\ UNCHANGED logResets
    /\ FileStep

\* the game starts over: the file is replaced by a new log
StartNewLog ==
    /\ logFile.status # "missing"
    /\ logResets < MaxLogResets
    /\ logResets' = logResets + 1
    /\ \E t \in CreationTimes :
         logFile' = LogFile(logFile.status, <<CreationLine(t)>>, logFile.modified + 1)
    /\ UNCHANGED written
    /\ FileStep

\* the file goes away, comes back, or is held by another process
AccessChanges ==
    /\ \E status \in {"ok", "missing", "locked"} \ {logFile.status} :
         logFile' = [logFile EXCEPT !.status = status]
    /\ UNCHANGED <<written, logResets>>
    /\ FileStep

Update ==
    /\ LET r == update(CurrentLog, logFile)
           texts == { r.value[i].message : i \in 1..Len(r.value) }
       IN  /\ messages' = r.self.messages
           /\ _start_time' = r.self._start_time
           /\ _last_modified' = r.self._last_modified
           /\ _last_position' = r.self._last_position
           /\ _last_file_size' = r.self._last_file_size
           /\ logRet' = [raised |-> r.raised, value |-> r.value]
           /\ returned' = returned \cup texts
           /\ returnedTwice' = (returnedTwice \/ texts \cap returned # {})
    /\ logPre' = CurrentLog
    /\ logOp' = "update"
    /\ UNCHANGED <<logFile, written, logResets>>
    /\ UNCHANGED <<safetyVars, nodeVars, smoothVars, notifyVars>>

NextLog == WriteLine \/ StartNewLog \/ AccessChanges \/ Update

SpecLog == InitLog /\ [][NextLog]_vars

\* ------------------------------------------------------------------------
\* Properties of the lane-safety evaluator (checked under SpecSafety)
\* ------------------------------------------------------------------------
TruckPos == Pt(truck.x, truck.z)
IsOpenResult == ret.safe /\ SqEq(ret.factor, SqOne)

\* the target lane of the last call exists and has geometry points
TargetLaneHasPoints ==
    /\ args.road.has_lanes
    /\ args.target < Len(args.road.lanes)
    /\ args.road.lanes[args.target + 1].has_points
    /\ args.road.lanes[args.target + 1].points # <<>>

EvaluatedLanePoints == args.road.lanes[args.target + 1].points

\* vehicle i of the traffic list is classified as blocking for the last call
VehicleBlocks(i) ==
    BlockingEntry(traffic.vehicles[i], EvaluatedLanePoints, TruckPos, truck.rot) # <<>>

SomeVehicleBlocks == \E i \in 1..Len(traffic.vehicles) : VehicleBlocks(i)

\* the last step was a call that got past every early return
FullEvaluation ==
    /\ lastOp = "evaluate"
    /\ args.target # args.current
    /\ traffic.kind = "returns"
    /\ traffic.vehicles # <<>>
    /\ TargetLaneHasPoints

\* C1: after evaluate(target, current, road) with target # current, a
\* non-empty traffic list and a target lane with geometry points, the call
\* returned safe=false exactly when some vehicle is blocking; an unsafe result
\* leaves the state pending for `target` with must-slow-down set; with no
\* blocking vehicle the result is (true, 1.0) and nothing is pending.
C1_BlockingDecides ==
    FullEvaluation =>
        /\ (ret.safe = FALSE) <=> SomeVehicleBlocks
        /\ ~ret.safe =>
              /\ is_waiting_for_lane_change(CurrentLaneState)
              /\ _target_lane_index = args.target
              /\ _slow_down_for_lane_change
        /\ ~SomeVehicleBlocks =>
              /\ IsOpenResult
              /\ ~is_waiting_for_lane_change(CurrentLaneState)

\* an unsafe result for a list of two vehicles of which only one blocks
C1_Witness ==
    /\ FullEvaluation
    /\ ~ret.safe
    /\ Len(traffic.vehicles) = 2
    /\ \E i \in 1..2 : ~VehicleBlocks(i)

\* C2: after evaluate with target_lane = current_lane the result is
\* (true, 1.0) and is_waiting() is false, whatever the state, the traffic
\* and the road were.
C2_SameLaneIsSafe ==
    (lastOp = "evaluate" /\ args.target = args.current) =>
        /\ IsOpenResult
        /\ ~is_waiting_for_lane_change(CurrentLaneState)

\* a same-lane call made while a change to another lane was pending, with
\* traffic reported
C2_Witness ==
    /\ lastOp = "evaluate"
    /\ args.target = args.current
    /\ prePending
    /\ _target_lane_index # args.target
    /\ get_vehicles_from_plugin(traffic) # <<>>

\* C3: is_waiting() is true only if the most recent evaluate returned
\* safe=false and no reset came after it.
C3_WaitingOnlyWhileUnsafe ==
    is_waiting_for_lane_change(CurrentLaneState) => lastEval = "unsafe"

\* the smallest truck-to-vehicle distance among the blocking vehicles
BlockingDistances ==
    { GroundDistance(Pt(traffic.vehicles[i].position.x, traffic.vehicles[i].position.z),
                     TruckPos) :
        i \in { j \in 1..Len(traffic.vehicles) : VehicleBlocks(j) } }
SmallestBlockingDistance ==
    CHOOSE d \in BlockingDistances : \A e \in BlockingDistances : SqLeq(d, e)

\* max(0.3, min(1.0, d / 30))
ClaimedFactor(d) ==
    SqMax(Sq(3, 10), SqMin(Sq(1, 1), SqDivInt(d, 30)))

FailOpenCase ==
    /\ lastOp = "evaluate"
    /\ \/ get_vehicles_from_plugin(traffic) = <<>>
       \/ ~args.road.has_lanes
       \/ args.target >= Len(args.road.lanes)
       \/ ~args.road.lanes[args.target + 1].has_points
       \/ args.road.lanes[args.target + 1].points = <<>>

C6_ResetClears ==
    lastOp = "reset" =>
        /\ ~is_waiting_for_lane_change(CurrentLaneState)
        /\ _target_lane_index = None
        /\ ~_slow_down_for_lane_change
        /\ reset_lane_change_state(CurrentLaneState) = CurrentLaneState

\* a reset made while a change was pending
C6_Witness == lastOp = "reset" /\ prePending

\* ------------------------------------------------------------------------
\* Properties of the node helpers (checked under SpecNodes)
\* ------------------------------------------------------------------------
ItemUidDone == nodePc = "done" /\ nodeOp = "item_uid"
LanesDone == nodePc = "done" /\ nodeOp = "lanes"

\* the four pairings, in the order forward/backward, backward/forward,
\* forward/forward, backward/backward
Pairings ==
    << <<node_1.forward_item_uid, node_2.backward_item_uid>>,
       <<node_1.backward_item_uid, node_2.forward_item_uid>>,
       <<node_1.forward_item_uid, node_2.forward_item_uid>>,
       <<node_1.backward_item_uid, node_2.backward_item_uid>> >>
IsRealUid(uid) == uid >= 1
MatchingPairings ==
    { i \in 1..4 : Pairings[i][1] = Pairings[i][2] /\ IsRealUid(Pairings[i][1]) }

\* C7: get_connecting_item_uid returns the id of the first pairing, in the
\* order above, that matches on a non-sentinel id, and None when no pairing
\* matches.
C7_FirstPairingWins ==
    ItemUidDone =>
        uidResult = IF MatchingPairings = {}
                    THEN None
                    ELSE Pairings[SetMin(MatchingPairings)][1]

\* several pairings match on different ids, and the result is the id of the
\* earliest of them
C7_Witness ==
    /\ ItemUidDone
    /\ \E i \in MatchingPairings, j \in MatchingPairings :
         i < j /\ Pairings[i][1] # Pairings[j][1] /\ uidResult = Pairings[i][1]

\* the real item ids both nodes hold
SharedRealUids ==
    { u \in {node_1.forward_item_uid, node_1.backward_item_uid}
             \cap {node_2.forward_item_uid, node_2.backward_item_uid} : IsRealUid(u) }

\* C8: get_connecting_item_uid never returns the sentinel 0: it returns None
\* or a non-zero id both nodes hold; nodes that share only a sentinel give
\* None, nodes joined only by road R give R.
C8_SentinelNeverConnects ==
    ItemUidDone =>
        /\ uidResult # 0
        /\ uidResult = None \/ uidResult \in SharedRealUids
        /\ SharedRealUids = {} => uidResult = None
        /\ \A r \in 1..MaxItemUid : SharedRealUids = {r} => uidResult = r

\* node_1's forward item and node_2's backward item are both the sentinel 0
C8_Witness ==
    /\ ItemUidDone
    /\ node_1.forward_item_uid = 0
    /\ node_2.backward_item_uid = 0
    /\ SharedRealUids = {}
    /\ uidResult = None

RoadLanesDone == LanesDone /\ item.kind = "Road" /\ ~item.road_look.is_none
LeftCount == Len(item.road_look.lanes_left)
RightCount == Len(item.road_look.lanes_right)
Elements(seq) == { seq[i] : i \in 1..Len(seq) }

\* C9: for a road with resolved lane look, L left and R right lanes, the
\* result is the ascending range L..L+R-1 when node_1 is the start node;
\* otherwise 0..L-1 when L > 0 and 0..R-1 when L = 0.  With L > 0 the forward
\* and the backward result share no lane.
C9_RoadLaneRanges ==
    RoadLanesDone =>
        /\ ~lanesResult.raised
        /\ lanesResult.value =
             IF item.start_node_uid = node_1.uid
             THEN [i \in 1..RightCount |-> LeftCount + i - 1]
             ELSE IF LeftCount > 0
             THEN [i \in 1..LeftCount |-> i - 1]
             ELSE [i \in 1..RightCount |-> i - 1]
        /\ LeftCount > 0 =>
             Elements(RoadConnectingLanes(Node(item.start_node_uid, None, None), item).value)
               \cap Elements(RoadConnectingLanes(Node(3 - item.start_node_uid, None, None), item).value)
               = {}

\* left = 2, right = 3, traversed forward: lanes 2, 3, 4
C9_Witness ==
    /\ RoadLanesDone
    /\ LeftCount = 2
    /\ RightCount = 3
    /\ item.start_node_uid = node_1.uid
    /\ lanesResult.value = <<2, 3, 4>>

\* the boundary nodes in the rotated order, and where node_1 and node_2 are
RotatedNodes ==
    rotate_right([i \in 1..Len(item.node_uids) |-> get_node_by_uid(item.node_uids[i])],
                 item.origin_node_index)
PositionsOf(uid) == NodeMatches(RotatedNodes.value, uid)

\* a prefab with a resolved description in which node_1 and node_2 are found
\* at distinct positions that have descriptors
PrefabRoutesScanned ==
    /\ LanesDone
    /\ item.kind = "Prefab"
    /\ ~item.prefab_description.is_none
    /\ ~RotatedNodes.raised
    /\ PositionsOf(node_1.uid) # {}
    /\ PositionsOf(node_2.uid) # {}
    /\ SetMin(PositionsOf(node_1.uid)) # SetMin(PositionsOf(node_2.uid))
    /\ SetMin(PositionsOf(node_1.uid)) <= Len(item.prefab_description.nodes)
    /\ SetMin(PositionsOf(node_2.uid)) <= Len(item.prefab_description.nodes)

StartDescriptor == item.prefab_description.nodes[SetMin(PositionsOf(node_1.uid))]
EndDescriptor == item.prefab_description.nodes[SetMin(PositionsOf(node_2.uid))]

\* curve j of route i (1-based) has its index in the given lane set
Touches(i, j, lanes) ==
    \E n \in 1..Len(item.prefab_description.nav_curves) :
        /\ item.prefab_description.nav_curves[n] = item.prefab_description.nav_routes[i].curves[j]
        /\ \A m \in 1..(n - 1) :
              item.prefab_description.nav_curves[m] # item.prefab_description.nav_routes[i].curves[j]
        /\ (n - 1) \in lanes

\* route i touches a start input lane and, at that curve or later, an end
\* output lane
Connects(i) ==
    \E j \in 1..Len(item.prefab_description.nav_routes[i].curves) :
      \E k \in j..Len(item.prefab_description.nav_routes[i].curves) :
        /\ Touches(i, j, StartDescriptor.input_lanes)
        /\ Touches(i, k, EndDescriptor.output_lanes)

\* C10: for a prefab with resolved description and node_1, node_2 found at
\* distinct positions, the result is the ascending list of the indices of
\* the routes that touch a start input lane and, at that curve or later, an
\* end output lane.
C10_AcceptedRoutes ==
    PrefabRoutesScanned =>
        /\ ~lanesResult.raised
        /\ \A n \in 1..(Len(lanesResult.value) - 1) :
              lanesResult.value[n] < lanesResult.value[n + 1]
        /\ Elements(lanesResult.value) =
             { i - 1 : i \in { r \in 1..Len(item.prefab_description.nav_routes) : Connects(r) } }

\* of two routes the second is accepted; the first touches an end output
\* lane and then a start input lane, in the wrong order only
C10_Witness ==
    /\ PrefabRoutesScanned
    /\ Len(item.prefab_description.nav_routes) = 2
    /\ lanesResult.value = <<1>>
    /\ Len(item.prefab_description.nav_routes[1].curves) = 2
    /\ Touches(1, 1, EndDescriptor.output_lanes)
    /\ Touches(1, 2, StartDescriptor.input_lanes)

\* ------------------------------------------------------------------------
\* The fail-empty cases of get_connecting_lanes_by_item
\* ------------------------------------------------------------------------
\* the call was given a degenerate input: a road without a look, a prefab
\* without a description, with a boundary node the map does not know, with
\* no boundary nodes, without node_1 or node_2 among them, or with node_1 and
\* node_2 being the same node, or an item that is neither road nor prefab
DegenerateItem ==
    \/ item.kind = "Road" /\ item.road_look.is_none
    \/ item.kind = "Prefab" /\
         \/ item.prefab_description.is_none
         \/ UnknownNodeUid \in Elements(item.node_uids)
         \/ item.node_uids = <<>>
         \/ node_1.uid \notin Elements(item.node_uids)
         \/ node_2.uid \notin Elements(item.node_uids)
         \/ node_1.uid = node_2.uid
    \/ item.kind \notin {"Road", "Prefab"}

\* C11: get_connecting_lanes_by_item returns the empty list, without
\* raising, for a road with unresolved look, a prefab with unresolved
\* description, a prefab with boundary node ids unknown to the map, a prefab
\* whose boundary-node list is empty or lacks node_1 or node_2, node_1 and
\* node_2 at the same position, and an item that is neither road nor prefab.
C11_DegenerateGivesEmpty ==
    (LanesDone /\ DegenerateItem) =>
        /\ ~lanesResult.raised
        /\ lanesResult.value = <<>>

\* ------------------------------------------------------------------------
\* Properties of get_surrounding_nav_nodes (checked under SpecNodes)
\* ------------------------------------------------------------------------
NavDone == nodePc = "done" /\ nodeOp = "surrounding"
NavPosition == Pt(navPose.x, navPose.z)
NodeIsAhead(node) == IsInFront(Pt(node.x, node.y), navPose.rot, NavPosition)
IsAbsentResult ==
    /\ ~navResult.raised
    /\ navResult.last = NoNavNode
    /\ navResult.next = NoNavNode

\* C12: get_surrounding_nav_nodes returns (absent, absent), without raising,
\* for every route with fewer than two nodes (one node, or none) and for
\* every route whose window holds only nodes ahead or only nodes behind.
C12_ShortRouteGivesAbsent ==
    (/\ NavDone
     /\ \/ Len(route_nodes) < 2
        \/ \A i \in 1..Len(closest_nodes) : NodeIsAhead(closest_nodes[i])
        \/ \A i \in 1..Len(closest_nodes) : ~NodeIsAhead(closest_nodes[i]))
    => IsAbsentResult

\* a route of n >= 2 equally spaced nodes on a line, the truck on the line
\* strictly between node k and node k + 1 (0-based), heading towards k + 1
StraightRoute ==
    /\ Len(route_nodes) >= 2
    /\ \E spacing \in RouteSpacings :
         \A i \in 1..Len(route_nodes) :
            route_nodes[i] = NavNode(i - 1, 0, spacing * (i - 1))
BetweenNodes(k) ==
    /\ StraightRoute
    /\ k + 2 <= Len(route_nodes)
    /\ navPose.x = 0
    /\ route_nodes[k + 1].y < navPose.z
    /\ navPose.z < route_nodes[k + 2].y
    /\ navPose.rot = 0

\* C13: on a straight route of n >= 2 equally spaced nodes, with the truck
\* strictly between the consecutive nodes k and k+1 (exactly midway
\* included) and heading towards increasing index, the call returns
\* (node k, node k+1).
C13_BracketsTheTruck ==
    \A k \in 0..(Len(route_nodes) - 2) :
       (NavDone /\ BetweenNodes(k)) =>
           /\ ~navResult.raised
           /\ navResult.last = route_nodes[k + 1]
           /\ navResult.next = route_nodes[k + 2]

\* a five-node route with the truck exactly midway between nodes 2 and 3
C13_Witness ==
    /\ NavDone
    /\ Len(route_nodes) = 5
    /\ BetweenNodes(2)
    /\ 2 * navPose.z = route_nodes[3].y + route_nodes[4].y
    /\ navResult.last = route_nodes[3]
    /\ navResult.next = route_nodes[4]

\* path[a:b]
Slice(path, a, b) == SubSeq(path, a + 1, Min(b, Len(path)))

\* the window as described: two nodes from the closest one when it is
\* behind, the first two nodes when it is ahead and first, the node before
\* it and itself otherwise
DescribedWindow ==
    LET i == ClosestIndex(route_nodes, NavPosition)
    IN  IF ~NodeIsAhead(route_nodes[i + 1])
        THEN Slice(route_nodes, i, i + 2)
        ELSE IF i = 0
        THEN Slice(route_nodes, 0, i + 2)
        ELSE Slice(route_nodes, i - 1, i + 1)

\* C17: the window around the closest index i holds at most two nodes:
\* path[i:i+2] when the closest node is behind, path[0:i+2] when it is ahead
\* and i = 0, path[i-1:i+1] when it is ahead and i >= 1; last is the first
\* node of the window that is behind and next the first that is ahead.
C17_WindowOfTwo ==
    (NavDone /\ route_nodes # <<>>) =>
        /\ Len(closest_nodes) <= 2
        /\ closest_nodes = DescribedWindow
        /\ \A i \in 1..Len(DescribedWindow) :
              /\ (/\ ~NodeIsAhead(DescribedWindow[i])
                  /\ \A j \in 1..(i - 1) : NodeIsAhead(DescribedWindow[j])
                  /\ \E j \in 1..Len(DescribedWindow) : NodeIsAhead(DescribedWindow[j]))
                 => navResult.last = DescribedWindow[i]
              /\ (/\ NodeIsAhead(DescribedWindow[i])
                  /\ \A j \in 1..(i - 1) : ~NodeIsAhead(DescribedWindow[j])
                  /\ \E j \in 1..Len(DescribedWindow) : ~NodeIsAhead(DescribedWindow[j]))
                 => navResult.next = DescribedWindow[i]

\* ------------------------------------------------------------------------
\* Properties of the smoother (checked under SpecSmooth)
\* ------------------------------------------------------------------------
\* the last n values given to smooth()
LastPushed(n) == SubSeq(pushed, Len(pushed) - n + 1, Len(pushed))

\* C14: in "frames" mode with capacity c >= 1 the history never holds more
\* than c samples; after n >= c pushes it is exactly the last c pushed
\* values, in order, and the value returned by the push, and by average(),
\* is their mean (capacity 3, pushes 1, 2, 3, 4: (2 + 3 + 4) / 3).
C14_FramesKeepLastValues ==
    smoothingType = "frames" =>
        /\ Len(valueArray) <= smoothingAmount
        /\ Len(pushed) >= smoothingAmount =>
              /\ valueArray = LastPushed(smoothingAmount)
              /\ smoothRet[1] * smoothingAmount
                   = SeqSum(LastPushed(smoothingAmount)) * smoothRet[2]

\* capacity 3 and the pushes 1, 2, 3, 4: the last push returned 9 / 3
C14_Witness ==
    /\ smoothingType = "frames"
    /\ smoothingAmount = 3
    /\ pushed = <<1, 2, 3, 4>>
    /\ smoothOp = "smooth"
    /\ valueArray = <<2, 3, 4>>
    /\ smoothRet[1] = 3 * smoothRet[2]

\* ------------------------------------------------------------------------
\* Properties of the notification server (checked under SpecNotify)
\* ------------------------------------------------------------------------
\* C15: send_ask, and send_dialog with no_response=False, always end by
\* returning: a message that is not None, stored by a connected client, or
\* None once the total response timeout has elapsed; this includes the calls
\* made with no client connected, with no client answering, and with every
\* client disconnecting during the wait.
C15_CallsReturn ==
    (askPc = "done" /\ ~askArgs.no_response) =>
        /\ ~askResult.raised
        /\ askResult.value = None => elapsed > timeout_seconds

\* ------------------------------------------------------------------------
\* Properties of the rotations (checked under SpecNodes)
\* ------------------------------------------------------------------------
\* the boundary nodes of the prefab in the order of item.node_uids
ItemNodes == [i \in 1..Len(item.node_uids) |-> get_node_by_uid(item.node_uids[i])]

\* the call was given a prefab with a description and rotated its n boundary
\* nodes by the origin index k, 0 <= k < n
PrefabRotated ==
    /\ LanesDone
    /\ item.kind = "Prefab"
    /\ ~item.prefab_description.is_none
    /\ 0 <= item.origin_node_index
    /\ item.origin_node_index < Len(item.node_uids)

\* C16 as stated: after the rotation the node at index k of the boundary-node
\* list is first and the others follow in cyclic order: position i of the
\* rotated order holds the node of index (k + i) mod n.
C16_OriginNodeFirst ==
    PrefabRotated =>
        /\ ~RotatedNodes.raised
        /\ \A i \in 0..(Len(ItemNodes) - 1) :
              RotatedNodes.value[i + 1]
                = ItemNodes[((item.origin_node_index + i) % Len(ItemNodes)) + 1]

\* C16, amended: after the rotation the node of index 0 of the boundary-node
\* list is at index k and the others follow in cyclic order: position
\* (i + k) mod n of the rotated order holds the node of index i, so the first
\* node is the one of index (n - k) mod n.
C16_FirstNodeAtOrigin ==
    PrefabRotated =>
        /\ ~RotatedNodes.raised
        /\ Len(RotatedNodes.value) = Len(ItemNodes)
        /\ \A i \in 0..(Len(ItemNodes) - 1) :
              RotatedNodes.value[((i + item.origin_node_index) % Len(ItemNodes)) + 1]
                = ItemNodes[i + 1]

\* three different boundary nodes and origin index 1: the node of index 2
\* is first, not the node of index 1
C16_Witness ==
    /\ PrefabRotated
    /\ item.node_uids = <<1, 2, 3>>
    /\ item.origin_node_index = 1
    /\ RotatedNodes.value[1].uid = 3
    /\ RotatedNodes.value[2].uid = 1

\* a first call of a rotation was made, and a second call of the other one
RotatedOnce == nodeOp = "rotate" /\ Len(rotCalls) >= 1
RoundTrip ==
    /\ nodeOp = "rotate"
    /\ Len(rotCalls) >= 2
    /\ rotCalls[1] # rotCalls[2]

\* C20: rotate_left followed by rotate_right with the same count, and
\* rotate_right followed by rotate_left, give the original sequence back for
\* every 0 <= count < length; both functions reject (assertion) a count >=
\* length and a negative count, so every count on the empty sequence.
C20_RotationsUndoEachOther ==
    /\ RotatedOnce =>
          ((Len(rotCalls) = 1 /\ rotRaised)
              <=> ~(0 <= count /\ count < Len(rotOriginal)))
    /\ (RoundTrip /\ Len(rotCalls) = 2) =>
          /\ ~rotRaised
          /\ arr = rotOriginal

\* a list of three different elements turned by 2 to the left and back
C20_Witness ==
    /\ RoundTrip
    /\ rotCalls = <<"rotate_left", "rotate_right">>
    /\ rotOriginal = <<1, 2, 3>>
    /\ count = 2
    /\ arr = rotOriginal

\* ------------------------------------------------------------------------
\* The screening window and the blocking classes (checked under SpecSafety)
\* ------------------------------------------------------------------------
\* the last call asked for lane 0 from lane 1 with the truck on lane 0's
\* centreline heading along it and a single vehicle on that centreline d
\* metres ahead
OneVehicleAhead(d) ==
    /\ lastOp = "evaluate"
    /\ args.target = 0
    /\ args.current = 1
    /\ args.road = RoadTwoLanes
    /\ truck = [x |-> 0, z |-> 0, rot |-> 0]
    /\ traffic.kind = "returns"
    /\ traffic.vehicles = <<Vehicle(Pos3(0, 0, d))>>

VehicleInEvaluatedLane(i) ==
    is_vehicle_in_lane(traffic.vehicles[i], EvaluatedLanePoints, TruckPos, truck.rot)

\* C18 as stated: a vehicle centred in the target lane directly ahead of the
\* truck is blocking at 39 m (safe=false, state pending) and ignored at 41 m
\* ((true, 1.0), state not pending).
C18_BlockingUpToForty ==
    /\ OneVehicleAhead(39) =>
          /\ ~ret.safe
          /\ is_waiting_for_lane_change(CurrentLaneState)
    /\ OneVehicleAhead(41) =>
          /\ IsOpenResult
          /\ ~is_waiting_for_lane_change(CurrentLaneState)

\* C18, amended: at 39 m the vehicle is inside the screening window and
\* counts as a member of the target lane, but it is not blocking, since a
\* vehicle ahead blocks only below 30 m: the result is (true, 1.0) and the
\* state is not pending; at 41 m it is outside the screening window, no lane
\* member, and the result is the same; at 10 m it is blocking.
C18_ScreenedButNotBlocking ==
    /\ OneVehicleAhead(39) =>
          /\ VehicleInEvaluatedLane(1)
          /\ IsOpenResult
          /\ ~is_waiting_for_lane_change(CurrentLaneState)
    /\ OneVehicleAhead(41) =>
          /\ ~VehicleInEvaluatedLane(1)
          /\ IsOpenResult
          /\ ~is_waiting_for_lane_change(CurrentLaneState)
    /\ OneVehicleAhead(10) =>
          /\ VehicleInEvaluatedLane(1)
          /\ ~ret.safe
          /\ is_waiting_for_lane_change(CurrentLaneState)

\* the call with the vehicle at 39 m, made while a change was pending
C18_Witness ==
    /\ OneVehicleAhead(39)
    /\ prePending
    /\ IsOpenResult

\* vehicle i as the blocking rule describes it: not at the null position, a
\* member of the evaluated lane (closer than 3.5 / 2 + 1 m to one of its
\* segments and inside the screening window), and ahead below 30 m, or not
\* ahead below 15 m, or below 8 m
DescribedBlocking(i) ==
    LET p == traffic.vehicles[i].position
        at == Pt(p.x, p.z)
        d == GroundDistance(at, TruckPos)
        front == IsInFront(at, truck.rot, TruckPos)
        window == IF front THEN 30 + 10 ELSE 15 + 10
    IN  /\ ~(p.x = 0 /\ p.y = 0 /\ p.z = 0)
        /\ \E j \in 1..(Len(EvaluatedLanePoints) - 1) :
              SqLess(distance_point_to_line_segment(at, EvaluatedLanePoints[j],
                                                    EvaluatedLanePoints[j + 1]),
                     Sq(11, 4))
        /\ SqLeq(d, Sq(window, 1))
        /\ \/ front /\ SqLess(d, Sq(30, 1))
           \/ ~front /\ SqLess(d, Sq(15, 1))
           \/ SqLess(d, Sq(8, 1))

\* C19: a vehicle is blocking exactly when its position is not the null
\* position, it is a member of the target lane (closer than 3.5/2 + 1 m to a
\* centreline segment and inside the screening window) and it is in front
\* below 30 m, or not in front below 15 m, or below 8 m; the call is unsafe
\* exactly when some vehicle is blocking, so a vehicle at the null position
\* never blocks.
C19_BlockingRule ==
    FullEvaluation =>
        /\ \A i \in 1..Len(traffic.vehicles) : VehicleBlocks(i) <=> DescribedBlocking(i)
        /\ ~ret.safe <=> \E i \in 1..Len(traffic.vehicles) : DescribedBlocking(i)
        /\ \A i \in 1..Len(traffic.vehicles) :
              is_zero(traffic.vehicles[i].position) => ~VehicleBlocks(i)

\* a vehicle at the null position, which is where the truck is, and a
\* vehicle 39 m ahead: nothing blocks
C19_Witness ==
    /\ FullEvaluation
    /\ args.target = 0
    /\ args.road = RoadTwoLanes
    /\ TruckPos = Pt(0, 0)
    /\ traffic.vehicles = <<Vehicle(Pos3(0, 0, 0)), Vehicle(Pos3(0, 0, 39))>>
    /\ ret.safe

\* ------------------------------------------------------------------------
\* The "time" mode of the smoother (checked under SpecSmooth)
\* ------------------------------------------------------------------------
\* s is what is left of t after dropping elements from its front
IsSuffix(s, t) ==
    \E k \in 0..Len(t) : s = SubSeq(t, k + 1, Len(t))

\* the history is not empty and holds one sample or spans at most the window
WithinWindow(values, amount) ==
    /\ Len(values) >= 1
    /\ \/ Len(values) = 1
       \/ values[Len(values)][1] - values[1][1] <= amount

\* one step in "time" mode: a push leaves a suffix of the old history
\* followed by the pushed sample, any other step leaves a suffix of the old
\* history
TimeModeStep ==
    smoothingType = "time" =>
        /\ WithinWindow(valueArray', smoothingAmount)
        /\ IF Len(pushed') > Len(pushed)
           THEN /\ IsSuffix(valueArray',
                            Append(valueArray, <<perf_counter, pushed'[Len(pushed')]>>))
                /\ valueArray'[Len(valueArray')] = <<perf_counter, pushed'[Len(pushed')]>>
           ELSE IsSuffix(valueArray', valueArray)

\* C21: in "time" mode, with a clock that never runs backwards, after every
\* push and every get() the history is not empty and holds exactly one
\* sample or spans at most the window from oldest to newest, and every step
\* only removes samples from the front, so the history is always a suffix of
\* the seed followed by the pushed samples.
C21_TimeWindowKept ==
    /\ [](smoothingType = "time" =>
             /\ WithinWindow(valueArray, smoothingAmount)
             /\ IsSuffix(SampleValues(valueArray), <<0>> \o pushed))
    /\ [][TimeModeStep]_vars

\* a push that came later than the window after the oldest samples and
\* dropped some of them but not all
C21_Witness ==
    /\ smoothingType = "time"
    /\ smoothOp = "smooth"
    /\ Len(valueArray) > 1
    /\ Len(valueArray) < Len(pushed)
    /\ valueArray[Len(valueArray)][1] - valueArray[1][1] = smoothingAmount

\* ------------------------------------------------------------------------
\* The pending state across calls (checked under SpecSafety)
\* ------------------------------------------------------------------------
\* C22: in every state reached by evaluate and reset calls the flags
\* _pending_lane_change and _slow_down_for_lane_change are equal, so
\* get_lane_change_speed_factor() is 0.5 exactly when is_waiting() is true
\* and 1.0 exactly when it is false.
C22_FlagsAgree ==
    /\ _pending_lane_change = _slow_down_for_lane_change
    /\ SqEq(get_lane_change_speed_factor(CurrentLaneState), Sq(1, 2))
          <=> is_waiting_for_lane_change(CurrentLaneState)
    /\ SqEq(get_lane_change_speed_factor(CurrentLaneState), Sq(1, 1))
          <=> ~is_waiting_for_lane_change(CurrentLaneState)

\* a pending change that a later call found clear
C22_Witness ==
    /\ lastOp = "evaluate"
    /\ prePending
    /\ args.target # args.current
    /\ ret.safe
    /\ ~_pending_lane_change
    /\ ~_slow_down_for_lane_change

\* C23: while a change is pending the stored target lane index is not None
\* and is the target_lane argument of the most recent evaluate call that
\* returned safe=false.
C23_PendingTargetIsLastUnsafe ==
    is_waiting_for_lane_change(CurrentLaneState) =>
        /\ _target_lane_index # None
        /\ _target_lane_index = lastUnsafeTarget

\* a pending change for lane 0, then a call for lane 1 that returned safe
\* and left the change pending
C23_Witness ==
    /\ is_waiting_for_lane_change(CurrentLaneState)
    /\ lastOp = "evaluate"
    /\ ret.safe
    /\ args.target = 1
    /\ _target_lane_index = 0

\* the step is a call for another lane that took one of the early returns on
\* missing traffic or geometry
FailOpenStep ==
    /\ FailOpenCase'
    /\ args'.target # args'.current

\* C24: the fail-open returns of evaluate (traffic unavailable, target lane
\* missing from the road, target lane without geometry points) leave
\* _pending_lane_change, _target_lane_index and _slow_down_for_lane_change
\* unchanged: is_waiting() after such a call is what it was before the call.
C24_FailOpenKeepsState ==
    [][FailOpenStep =>
          /\ UNCHANGED <<_pending_lane_change, _target_lane_index,
                         _slow_down_for_lane_change>>
          /\ is_waiting_for_lane_change(CurrentLaneState)'
                = is_waiting_for_lane_change(CurrentLaneState)]_vars

\* a call for a lane the road does not have, made with vehicles reported
\* while a change to lane 0 was pending
C24_Witness ==
    /\ lastOp = "evaluate"
    /\ args.target # args.current
    /\ get_vehicles_from_plugin(traffic) # <<>>
    /\ args.road.has_lanes
    /\ args.target >= Len(args.road.lanes)
    /\ prePending
    /\ _pending_lane_change
    /\ _slow_down_for_lane_change
    /\ _target_lane_index = 0

\* ------------------------------------------------------------------------
\* The classes of blocking vehicles (checked under SpecSafety)
\* ------------------------------------------------------------------------
\* whole distances up to beyond the screening window
MaxWholeDistance == 45

\* what the vehicle loop recorded for vehicle i of the last call
RecordedEntry(i) ==
    BlockingEntry(traffic.vehicles[i], EvaluatedLanePoints, TruckPos, truck.rot)

VehicleDistance(i) ==
    GroundDistance(Pt(traffic.vehicles[i].position.x, traffic.vehicles[i].position.z),
                   TruckPos)

\* C25: the 'beside' class is never assigned: for every distance and either
\* front/behind outcome a vehicle closer than 8 m is already 'ahead' (in
\* front) or 'behind' (not in front), so the blocking vehicles are exactly
\* those of the classes 'ahead' and 'behind'.
C25_BesideNeverAssigned ==
    /\ \A d \in 0..MaxWholeDistance, front \in BOOLEAN :
          /\ SafetyClass(Sq(d, 1), front) # "beside"
          /\ d < SAFETY_DISTANCE_BESIDE =>
                SafetyClass(Sq(d, 1), front) = (IF front THEN "ahead" ELSE "behind")
    /\ FullEvaluation =>
          \A i \in 1..Len(traffic.vehicles) :
             /\ VehicleBlocks(i) => RecordedEntry(i)[1].class \in {"ahead", "behind"}
             /\ (/\ ~is_zero(traffic.vehicles[i].position)
                 /\ VehicleInEvaluatedLane(i)
                 /\ SqLess(VehicleDistance(i), Sq(SAFETY_DISTANCE_BESIDE, 1)))
                   => VehicleBlocks(i)

\* a lane member closer than 8 m that is not in front: it is recorded as
\* 'behind' and the call is unsafe
C25_Witness ==
    /\ FullEvaluation
    /\ \E i \in 1..Len(traffic.vehicles) :
          /\ VehicleBlocks(i)
          /\ SqLess(VehicleDistance(i), Sq(SAFETY_DISTANCE_BESIDE, 1))
          /\ RecordedEntry(i)[1].class = "behind"
    /\ ~ret.safe

\* ------------------------------------------------------------------------
\* Symmetry of get_connecting_item_uid (checked under SpecNodes)
\* ------------------------------------------------------------------------
\* the same call with the two nodes in the other order
OtherOrderUid == get_connecting_item_uid(node_2, node_1)

\* C26: connectedness is symmetric: get_connecting_item_uid(a, b) is None
\* exactly when get_connecting_item_uid(b, a) is None, and when the two nodes
\* share exactly one non-sentinel item id both orders return that id.
C26_ConnectedIsSymmetric ==
    ItemUidDone =>
        /\ uidResult = None <=> OtherOrderUid = None
        /\ \A u \in 1..MaxItemUid :
              SharedRealUids = {u} => uidResult = u /\ OtherOrderUid = u

\* one shared id, held as node_1's backward item and node_2's forward item:
\* the second pairing finds it, and the first pairing does in the other order
C26_Witness ==
    /\ ItemUidDone
    /\ Cardinality(SharedRealUids) = 1
    /\ MatchingPairings = {2}
    /\ uidResult = OtherOrderUid
    /\ uidResult # None

\* ------------------------------------------------------------------------
\* The seed sample of the smoother (checked under SpecSmooth)
\* ------------------------------------------------------------------------
\* the seed is still the oldest sample of the history: nothing was dropped
SeedRetained ==
    /\ Len(valueArray) = Len(pushed) + 1
    /\ valueArray[1] = (IF smoothingType = "frames" THEN 0 ELSE <<0, 0>>)

\* the values of the history, oldest first
HistoryValues ==
    IF smoothingType = "frames" THEN valueArray ELSE SampleValues(valueArray)

\* C27: a new smoother holds one seed sample of value 0, so get() before any
\* push is 0, and the seed counts like a pushed sample until it is dropped:
\* in "frames" mode with capacity c the n-th push, n < c, returns the sum of
\* the n pushed values divided by n + 1, not their mean; the seed is gone
\* only after c pushes ("frames") or once a sample is newer than the seed by
\* more than the window ("time").
C27_SeedCounts ==
    /\ pushed = <<>> =>
          /\ HistoryValues = <<0>>
          /\ smoothRet[1] = 0 /\ smoothRet[2] # 0
    /\ SeedRetained => HistoryValues = <<0>> \o pushed
    /\ smoothingType = "frames" =>
          /\ SeedRetained <=> Len(pushed) < smoothingAmount
          /\ (smoothOp = "smooth" /\ Len(pushed) < smoothingAmount) =>
                /\ smoothRet[1] * (Len(pushed) + 1) = SeqSum(pushed) * smoothRet[2]
                /\ smoothRet[1] * Len(pushed) # SeqSum(pushed) * smoothRet[2]
    /\ smoothingType = "time" =>
          SeedRetained <=>
             \/ pushed = <<>>
             \/ valueArray[Len(valueArray)][1] - 0 <= smoothingAmount

\* "frames" mode with capacity 3: the second push returned the sum of the
\* two values over 3
C27_Witness ==
    /\ smoothingType = "frames"
    /\ smoothingAmount = 3
    /\ smoothOp = "smooth"
    /\ Len(pushed) = 2
    /\ valueArray = <<0>> \o pushed
    /\ smoothRet = <<pushed[1] + pushed[2], 3>>

\* ------------------------------------------------------------------------
\* Answers and the shared map (checked under SpecNotify)
\* ------------------------------------------------------------------------
\* the call returned a message
AnswerReturned ==
    /\ askPc = "done"
    /\ ~askArgs.no_response
    /\ ~askResult.raised
    /\ askResult.value # None

\* C28: a value other than None returned by send_ask, or by send_dialog
\* that waits, is a message a client sent after the call sent its question;
\* a message sent before the question, while no call was waiting, is never
\* returned as the answer to a later question.
C28_AnswerIsFresh == AnswerReturned => ~stale

\* the waiter is inside `for ws in connected`
Iterating == askPc \in {"scan", "lookup", "clear"}

\* C29: every change to `connected` is made while holding `condition`, so
\* the map never changes size while a waiter is iterating over it: it has
\* as many keys as when the iteration began.
C29_NoResizeWhileIterating ==
    Iterating => DictLen(connected) = iterator.used

\* ------------------------------------------------------------------------
\* Properties of the log tail (checked under SpecLog)
\* ------------------------------------------------------------------------
UpdateDone == logOp = "update"

TimestampsIncrease ==
    \A i \in 1..(Len(messages) - 1) :
        messages[i].timestamp < messages[i + 1].timestamp

\* the call returned the messages it appended, to the list as it was or to
\* the list it had emptied
ReturnsWhatItAppended ==
    (UpdateDone /\ ~logRet.raised) =>
        \/ messages = logPre.messages \o logRet.value
        \/ messages = logRet.value

NoLineReturnedTwice == ~returnedTwice

\* the file could not be read, or its modification time was not after the
\* one of the last read
NothingToRead ==
    \/ logFile.status # "ok"
    \/ logFile.modified <= logPre._last_modified

\* C30: whatever the order of update() calls, appended lines and new logs,
\* Log.messages has strictly increasing timestamps, every update() returns
\* exactly the messages it appended in that call, no log line is returned by
\* two update() calls, and an update() that finds the modification time
\* unchanged or the file unreadable returns [] and changes nothing.
C30_LogTail ==
    /\ TimestampsIncrease
    /\ ReturnsWhatItAppended
    /\ NoLineReturnedTwice
    /\ (UpdateDone /\ NothingToRead) =>
          /\ ~logRet.raised
          /\ logRet.value = <<>>
          /\ CurrentLog = logPre

====
